---- MODULE Spec2Model ----
(***************************************************************************)
(* Model of the VOID IDE core: the VirtualDisk (synchronous in-memory file *)
(* map with asynchronous IndexedDB flush), the kernel worker that hosts it *)
(* and the useKernel controller that drives the worker by messages.        *)
(*                                                                         *)
(* Strings are sequences of one-character strings, so that startsWith,     *)
(* endsWith, slice and split are computed as JavaScript computes them.     *)
(* A Uint8Array is a sequence of byte values.  An optional value (the      *)
(* result of Map.get, which may be undefined) is a sequence of length 0 or *)
(* 1.                                                                      *)
(***************************************************************************)
EXTENDS Integers, Sequences, FiniteSets, TLC

VARIABLES
  memory,         \* VirtualDisk.memory : Map<string, Uint8Array>
  dirty,          \* VirtualDisk.dirty : Set<string>, in insertion order
  db,             \* VirtualDisk.db : "null" | "open" | "closed"
  flushInterval,  \* VirtualDisk.flushInterval : timer id, 0 for null
  isReady,        \* VirtualDisk.isReady
  timers,         \* the interval timers that are active in the context
  idb,            \* committed records of the IndexedDB object store 'files'
  opening,        \* owners of the init() calls suspended in openDB
  txq,            \* IndexedDB transactions in creation order, each with the
                  \* init() or flush() call that awaits it
  last,           \* the last synchronous disk call and what it returned
  force,          \* the forceFlush() call under observation: "pending",
                  \* "resolved" or "rejected"; "idle" when there is none or
                  \* a write or delete was made after it was called
  unsynced,       \* paths whose last change in this context has not been
                  \* carried to the Backing Store by a committed flush
  restored,       \* in a fresh context, until its first write or delete:
                  \* the Content Store the previous context ended with,
                  \* when all its changes had been flushed
  shut,           \* the shutdown() call under observation, as `force`
  failed,         \* the last flush that failed, until the next write or
                  \* delete: its snapshot, and memory and isReady as they were
  inbox,          \* commands posted to the worker, not yet dispatched
  outbox,         \* messages posted by the worker, not yet delivered
  pendingCallbacks, \* useKernel pendingCallbacksRef: the message ids that
                  \* have a callback, in insertion order
  messageId,      \* useKernel messageIdRef
  promises,       \* the promise returned by each sendCommand call
  kernelReady,    \* useKernel isReady state, set by boot()
  cmds,           \* every command sent so far, by message id
  sent,           \* every RESPONSE or ERROR the worker has posted so far
  started,        \* message ids of the commands the worker has dispatched
  pyodideReady,   \* worker: let pyodideReady
  pyodide,        \* worker: self.pyodide, "undefined" or "loaded"
  awaiting,       \* the handlers suspended in loadPyodide or runPythonAsync
  engine,         \* AI worker: let engine, None for null
  loadedModelName, \* AI worker: let loadedModelName, None for null
  isBooting,      \* AI worker: let isBooting
  currentMode,    \* AI worker: let currentMode
  cacheMode,      \* AI worker: let cacheMode
  aiInbox,        \* commands posted to the AI worker, not yet dispatched
  aiAwaiting,     \* the AI handlers suspended in an await
  aiSent,         \* every message the AI worker has posted so far
  commandId,      \* useAI commandIdRef
  loadedEngines,  \* the engines CreateMLCEngine has made that were neither
                  \* unloaded nor lost
  buffer,         \* OutputBatcher.buffer; each text with the command whose
                  \* handler wrote it (NoCommand: written by none)
  timeoutId,      \* OutputBatcher.timeoutId, 0 for null
  timeouts,       \* the setTimeout callbacks of OutputBatcher not yet run
  emitted,        \* every TERMINAL_OUTPUT the worker has posted so far
  written,        \* every text given to OutputBatcher.write so far
  terminalOutput, \* useKernel terminalOutput state
  files,          \* useFileSystem files : the tree of FileNode
  currentFile,    \* useFileSystem currentFile, None for null
  openFiles,      \* useFileSystem openFiles
  uuid,           \* how many ids crypto.randomUUID() has given out
  storeLast,      \* the last call of the file-tree store, and for
                  \* createFile and createFolder the state it was made in
  pagePc,         \* page.tsx: where the boot effect or handleRunPython is
  pythonLoaded,   \* page.tsx pythonLoaded state
  lastOutputIndex, \* page.tsx lastOutputIndex state
  termWrites,     \* every chunk of the output log written to the terminal
                  \* so far: the run whose log it was in, and its position
  effectSeen      \* the terminalOutput and lastOutputIndex the terminal
                  \* output effect last ran with

diskVars == <<memory, dirty, db, flushInterval, isReady, timers, idb,
              opening, txq>>
ghostVars == <<last, force, unsynced, restored, shut, failed>>
engineVars == <<pyodideReady, pyodide, awaiting>>
batcherVars == <<buffer, timeoutId, timeouts, emitted, written>>
outputVars == <<batcherVars, terminalOutput>>
aiVars == <<engine, loadedModelName, isBooting, currentMode, cacheMode,
            aiInbox, aiAwaiting, aiSent, commandId, loadedEngines>>
storeVars == <<files, currentFile, openFiles, uuid, storeLast>>
pageVars == <<pagePc, pythonLoaded, lastOutputIndex, termWrites, effectSeen>>
kernelVars == <<inbox, outbox, pendingCallbacks, messageId, promises,
                kernelReady, cmds, sent, started, engineVars, aiVars,
                outputVars, storeVars, pageVars>>
vars == <<diskVars, ghostVars, kernelVars>>

-----------------------------------------------------------------------------
(* Bounds *)

MaxFlushes == 1      \* flush() calls in progress at the same time
MaxTouched == 2      \* paths written or deleted in the directory model
MaxCmds == 3         \* commands the controller sends to the worker
MaxAICmds == 3       \* commands useAI sends to the AI worker
MaxWrites == 3       \* OutputBatcher.write calls made directly
MaxStdout == 2       \* texts the Python engine writes to standard output
MaxNodes == 3        \* nodes created in the file-tree store

\* The Uint8Array values written: the empty array and a one-byte array.
Bytes == {<<>>, <<0>>}

\* Paths of the flush model
P_a == <<"/", "a">>
P_b == <<"/", "b">>
DiskPaths == {P_a, P_b}

\* Paths of the directory model: files at three depths, a file that is also
\* the prefix of other files (/a/b), siblings that share a directory, and a
\* name (/aa) that another name (/a) is a prefix of as a string only.
DirPaths == {<<"/", "a">>, <<"/", "b">>, <<"/", "a", "a">>,
             <<"/", "a", "/", "a">>, <<"/", "a", "/", "b">>,
             <<"/", "b", "/", "a">>,
             <<"/", "a", "/", "b", "/", "a">>, <<"/", "a", "/", "b", "/", "b">>}

\* Paths asked about: the stored ones, the root ('/' and ''), and paths that
\* are never stored.
DirQueries == DirPaths \cup {<<"/">>, <<>>, <<"/", "b", "/", "b">>,
                             <<"/", "a", "/", "a", "/", "a">>}

-----------------------------------------------------------------------------
(* JavaScript values *)

None == <<>>
Some(v) == <<v>>

EmptyMap == [k \in {} |-> <<>>]
MapHas(m, k) == k \in DOMAIN m
MapGet(m, k) == IF k \in DOMAIN m THEN Some(m[k]) ELSE None
MapSet(m, k, v) == [x \in DOMAIN m \cup {k} |-> IF x = k THEN v ELSE m[x]]
MapDelete(m, k) == [x \in DOMAIN m \ {k} |-> m[x]]

\* An object (a Uint8Array, even an empty one) is truthy; undefined is not.
Truthy(opt) == opt # None

\* Some enumeration of a finite set (iteration order is not modelled).
RECURSIVE SetToSeq(_)
SetToSeq(S) ==
  IF S = {} THEN <<>>
  ELSE LET x == CHOOSE y \in S : TRUE IN <<x>> \o SetToSeq(S \ {x})

MapKeys(m) == SetToSeq(DOMAIN m)

Range(s) == {s[i] : i \in 1..Len(s)}

\* String.prototype.startsWith / endsWith / slice(from) / slice(0, -1)
startsWith(s, t) == Len(t) <= Len(s) /\ SubSeq(s, 1, Len(t)) = t
endsWith(s, t) == Len(t) <= Len(s) /\ SubSeq(s, Len(s) - Len(t) + 1, Len(s)) = t
sliceFrom(s, n) == SubSeq(s, n + 1, Len(s))
dropLast(s) == SubSeq(s, 1, Len(s) - 1)

\* String.prototype.split('/'): the pieces between the separators, empty
\* pieces included; ''.split('/') is [''].
RECURSIVE split(_)
split(s) ==
  IF \A i \in 1..Len(s) : s[i] # "/" THEN <<s>>
  ELSE LET i == CHOOSE j \in 1..Len(s) :
                  s[j] = "/" /\ \A k \in 1..(j - 1) : s[k] # "/"
       IN <<SubSeq(s, 1, i - 1)>> \o split(SubSeq(s, i + 1, Len(s)))

\* Array.prototype.filter(Boolean) on an array of strings
filterBoolean(a) == SelectSeq(a, LAMBDA x : x # <<>>)

\* new Set(): add keeps the first occurrence only; Array.from(set)
SetAdd(entries, x) == IF x \in Range(entries) THEN entries ELSE Append(entries, x)

-----------------------------------------------------------------------------
(* VirtualDisk: synchronous operations *)

Throw(e) == [status |-> e, value |-> None]
Return(v) == [status |-> "ok", value |-> Some(v)]

\* A variant that takes an empty array for a missing file (!data.length).
readFileSync_emptyIsMissing(path) ==
  IF ~isReady THEN Throw("NotInitialized")
  ELSE LET data == MapGet(memory, path) IN
       IF ~Truthy(data) \/ data = Some(<<>>) THEN Throw("NotFound")
       ELSE Return(data[1])

readFileSync(path) ==
  IF ~isReady THEN Throw("NotInitialized")
  ELSE LET data == MapGet(memory, path) IN
       IF ~Truthy(data) THEN Throw("NotFound")
       ELSE Return(data[1])

\* A variant that does not mark the path dirty.
writeFileSync_noDirty(path, data) ==
  IF ~isReady
  THEN [status |-> "NotInitialized", memory |-> memory, dirty |-> dirty]
  ELSE [status |-> "ok", memory |-> MapSet(memory, path, data),
        dirty |-> dirty]

\* The result carries the Content Store and Dirty Set the call leaves.
writeFileSync(path, data) ==
  IF ~isReady
  THEN [status |-> "NotInitialized", memory |-> memory, dirty |-> dirty]
  ELSE [status |-> "ok", memory |-> MapSet(memory, path, data),
        dirty |-> SetAdd(dirty, path)]

existsSync(path) == Return(MapHas(memory, path))

\* A variant without the ENOENT guard.
unlinkSync_noCheck(path) ==
  IF ~isReady
  THEN [status |-> "NotInitialized", memory |-> memory, dirty |-> dirty]
  ELSE [status |-> "ok", memory |-> MapDelete(memory, path),
        dirty |-> SetAdd(dirty, path)]

\* A variant that marks the path dirty and leaves its key in the map.
unlinkSync_marksOnly(path) ==
  IF ~isReady
  THEN [status |-> "NotInitialized", memory |-> memory, dirty |-> dirty]
  ELSE IF ~MapHas(memory, path)
  THEN [status |-> "NotFound", memory |-> memory, dirty |-> dirty]
  ELSE [status |-> "ok", memory |-> memory, dirty |-> SetAdd(dirty, path)]

unlinkSync(path) ==
  IF ~isReady
  THEN [status |-> "NotInitialized", memory |-> memory, dirty |-> dirty]
  ELSE IF ~MapHas(memory, path)
  THEN [status |-> "NotFound", memory |-> memory, dirty |-> dirty]
  ELSE [status |-> "ok", memory |-> MapDelete(memory, path),
        dirty |-> SetAdd(dirty, path)]

listFiles == Return(MapKeys(memory))

RECURSIVE readdirRoot(_, _)
readdirRoot(keys, entries) ==
  IF keys = <<>> THEN entries
  ELSE LET parts == filterBoolean(split(Head(keys))) IN
       readdirRoot(Tail(keys),
                   IF parts # <<>> THEN SetAdd(entries, parts[1]) ELSE entries)

RECURSIVE readdirIn_noSet(_, _, _)
\* A variant that collects into an array, duplicates kept.
readdirIn_noSet(normalizedDir, keys, entries) ==
  IF keys = <<>> THEN entries
  ELSE LET path == Head(keys) IN
       readdirIn_noSet(normalizedDir, Tail(keys),
         IF startsWith(path, normalizedDir \o <<"/">>)
         THEN LET relativePath == sliceFrom(path, Len(normalizedDir) + 1)
                  firstPart == split(relativePath)[1]
              IN IF firstPart # <<>> THEN Append(entries, firstPart) ELSE entries
         ELSE entries)

RECURSIVE readdirIn(_, _, _)
readdirIn(normalizedDir, keys, entries) ==
  IF keys = <<>> THEN entries
  ELSE LET path == Head(keys) IN
       readdirIn(normalizedDir, Tail(keys),
         IF startsWith(path, normalizedDir \o <<"/">>)
         THEN LET relativePath == sliceFrom(path, Len(normalizedDir) + 1)
                  firstPart == split(relativePath)[1]
              IN IF firstPart # <<>> THEN SetAdd(entries, firstPart) ELSE entries
         ELSE entries)

readdirSync(dirPath) ==
  IF dirPath = <<>> \/ dirPath = <<"/">>
  THEN Return(readdirRoot(MapKeys(memory), <<>>))
  ELSE LET normalizedDir == IF endsWith(dirPath, <<"/">>) THEN dropLast(dirPath)
                            ELSE dirPath
       IN Return(readdirIn(normalizedDir, MapKeys(memory), <<>>))

Stat(isDir, size) == [isDirectory |-> isDir, size |-> size]

\* A variant that matches the prefix without the '/' after it.
statSync_noInference(path) ==
  IF path = <<>> \/ path = <<"/">> THEN Return(Stat(TRUE, 0))
  ELSE LET normalizedPath == IF endsWith(path, <<"/">>) THEN dropLast(path)
                             ELSE path
       IN IF MapHas(memory, normalizedPath)
          THEN Return(Stat(FALSE, Len(memory[normalizedPath])))
          ELSE IF \E filePath \in DOMAIN memory :
                    startsWith(filePath, normalizedPath)
          THEN Return(Stat(TRUE, 0))
          ELSE Throw("NotFound")

statSync(path) ==
  IF path = <<>> \/ path = <<"/">> THEN Return(Stat(TRUE, 0))
  ELSE LET normalizedPath == IF endsWith(path, <<"/">>) THEN dropLast(path)
                             ELSE path
       IN IF MapHas(memory, normalizedPath)
          THEN Return(Stat(FALSE, Len(memory[normalizedPath])))
          ELSE IF \E filePath \in DOMAIN memory :
                    startsWith(filePath, normalizedPath \o <<"/">>)
          THEN Return(Stat(TRUE, 0))
          ELSE Throw("NotFound")

-----------------------------------------------------------------------------
(* Messages between the controller and the kernel worker *)

Payload(kind, data, text) == [kind |-> kind, data |-> data, text |-> text]
Text(t) == Payload("text", <<>>, t)
Data(d) == Payload("bytes", d, "")
Null == Payload("null", <<>>, "")
ErrorPayload(message) == Payload("error", <<>>, message)

\* `payload`: the message has a payload property.
Command(type, path, data, id) ==
  [type |-> type, path |-> path, data |-> data, id |-> id, payload |-> TRUE]

WithoutPayload(type, id) ==
  [type |-> type, path |-> <<>>, data |-> <<>>, id |-> id, payload |-> FALSE]

Message(type, payload, cmd) == [type |-> type, payload |-> payload, cmd |-> cmd]

\* self.postMessage of a RESPONSE or ERROR; `cmd` is the command answered.
Post(type, payload, cmd) ==
  /\ outbox' = Append(outbox, Message(type, payload, cmd))
  /\ sent' = Append(sent, Message(type, payload, cmd))

\* The async call made on behalf of `owner` settles: a command handler that
\* awaited it posts its answer in the same turn; a direct caller does not.
Settle(owner, type, payload) ==
  /\ IF owner # None THEN Post(type, payload, owner[1])
     ELSE UNCHANGED <<outbox, sent>>
  /\ UNCHANGED <<inbox, pendingCallbacks, messageId, promises, kernelReady,
                 cmds, started, engineVars, aiVars, storeVars, pageVars, outputVars>>

-----------------------------------------------------------------------------
(* VirtualDisk: boot *)

InitTask(owner, pc) == [type |-> "init", owner |-> owner, pc |-> pc]

RemoveAt(s, k) == SubSeq(s, 1, k - 1) \o SubSeq(s, k + 1, Len(s))

\* An IndexedDB transaction runs once every earlier transaction on the same
\* store that conflicts with it has finished; two readonly transactions
\* (the getAll of init) do not conflict.
Runnable(k) ==
  \A j \in 1..(k - 1) : txq[j].type = "init" /\ txq[k].type = "init"

InitsInProgress ==
  Len(opening) + Cardinality({k \in 1..Len(txq) : txq[k].type = "init"})

\* init() up to its first await: openDB is requested.
init(owner) == opening' = Append(opening, owner)

\* openDB rejects: init() throws, and so does waitForBoot(); the BOOT
\* handler that awaited it ends in its catch block.
InitOpenFailed ==
  /\ opening # <<>>
  /\ opening' = Tail(opening)
  /\ Settle(Head(opening), "ERROR", ErrorPayload("OpenFailed"))
  /\ last' = [by |-> Head(opening), op |-> "init", path |-> <<>>,
              data |-> None, ready |-> isReady, had |-> FALSE,
              result |-> Throw("OpenFailed"), mutated |-> FALSE,
              afterWrite |-> None]
  /\ UNCHANGED <<memory, dirty, db, flushInterval, isReady, timers, idb, txq>>
  /\ UNCHANGED <<force, unsynced, restored, shut, failed>>

\* openDB resolves: this.db is set, the readonly transaction is created and
\* getAll is requested.
InitOpened ==
  /\ opening # <<>>
  /\ opening' = Tail(opening)
  /\ db' = "open"
  /\ txq' = Append(txq, InitTask(Head(opening), "getAll"))
  /\ UNCHANGED <<memory, dirty, flushInterval, isReady, timers, idb>>
  /\ UNCHANGED <<ghostVars, kernelVars>>

\* getAll resolves: every record is set into memory; tx.done is awaited.
loadAll(m, records) ==
  [x \in DOMAIN m \cup DOMAIN records |->
     IF x \in DOMAIN records THEN records[x] ELSE m[x]]

InitGetAll(k) ==
  /\ txq[k].type = "init" /\ txq[k].pc = "getAll"
  /\ Runnable(k)
  /\ memory' = loadAll(memory, idb)
  /\ txq' = [txq EXCEPT ![k].pc = "txdone"]
  /\ UNCHANGED <<dirty, db, flushInterval, isReady, timers, idb, opening>>
  /\ UNCHANGED <<ghostVars, kernelVars>>

NewTimer == CHOOSE t \in 1..(Cardinality(timers) + 1) : t \notin timers

\* tx.done resolves: the flush interval is started and the disk is ready;
\* the BOOT handler that awaited waitForBoot() answers 'Kernel Ready'.
InitDone(k) ==
  /\ txq[k].type = "init" /\ txq[k].pc = "txdone"
  /\ Runnable(k)
  /\ flushInterval' = NewTimer
  /\ timers' = timers \cup {NewTimer}
  /\ isReady' = TRUE
  /\ txq' = RemoveAt(txq, k)
  /\ Settle(txq[k].owner, "RESPONSE", Text("Kernel Ready"))
  /\ UNCHANGED <<memory, dirty, db, idb, opening>>
  /\ UNCHANGED ghostVars

-----------------------------------------------------------------------------
(* VirtualDisk: flush *)

\* `seen`: what memory held for each path when the loop came to it.
FlushTask(caller, paths, i, writes, covered, seen) ==
  [type |-> "flush", caller |-> caller, paths |-> paths, i |-> i,
   writes |-> writes, covered |-> covered, seen |-> seen]

FlushesInProgress == Cardinality({k \in 1..Len(txq) : txq[k].type = "flush"})

\* One iteration of the loop of flush() up to its await: the request for
\* `path` is made with what memory holds now, a put if there is data and a
\* delete if there is none.  First a variant that deletes an empty file.
request_emptyIsDeleted(writes, path) ==
  MapSet(writes, path,
         IF MapGet(memory, path) = Some(<<>>) THEN None ELSE MapGet(memory, path))

\* The request as the code makes it: `if (data)` holds for an empty array.
request(writes, path) == MapSet(writes, path, MapGet(memory, path))

\* flush() returns at once without doing anything.
flushIsNoop == db = "null" \/ Len(dirty) = 0

\* flush() from its call to its first await: the Dirty Set is copied and
\* cleared, the readwrite transaction is created and the first request made.
flush(caller) ==
  /\ ~flushIsNoop
  /\ dirty' = <<>>
  /\ txq' = Append(txq, FlushTask(caller, dirty, 1,
                                  request(EmptyMap, dirty[1]), {dirty[1]},
                                  MapSet(EmptyMap, dirty[1],
                                         MapGet(memory, dirty[1]))))

\* The awaited request resolves; the loop makes the next request or, after
\* the last path, awaits tx.done.
FlushStep(k) ==
  /\ txq[k].type = "flush"
  /\ Runnable(k)
  /\ txq[k].i <= Len(txq[k].paths)
  /\ LET f == txq[k]
         n == f.i + 1
     IN txq' = [txq EXCEPT ![k] =
          IF n <= Len(f.paths)
          THEN FlushTask(f.caller, f.paths, n, request(f.writes, f.paths[n]),
                         f.covered \cup {f.paths[n]},
                         MapSet(f.seen, f.paths[n], MapGet(memory, f.paths[n])))
          ELSE FlushTask(f.caller, f.paths, n, f.writes, f.covered, f.seen)]
  /\ UNCHANGED <<memory, dirty, db, flushInterval, isReady, timers, idb, opening>>
  /\ UNCHANGED <<ghostVars, kernelVars>>

\* A variant in which the deletes of the transaction do not reach the store.
commit_putsOnly(records, writes) ==
  [x \in DOMAIN records \cup {p \in DOMAIN writes : writes[p] # None} |->
     IF x \in DOMAIN writes /\ writes[x] # None THEN writes[x][1]
     ELSE records[x]]

\* The transaction commits: all its puts and deletes reach the store.
commit(records, writes) ==
  [x \in (DOMAIN records \cup {p \in DOMAIN writes : writes[p] # None})
            \ {p \in DOMAIN writes : writes[p] = None} |->
     IF x \in DOMAIN writes THEN writes[x][1] ELSE records[x]]

\* A path the transaction wrote with bytes that memory no longer holds
\* (it was changed after the request) is stale in the store again.
\* shutdown(), when it is the caller, goes on after its await: the
\* database is closed and isReady cleared.
FlushCommit(k) ==
  /\ txq[k].type = "flush"
  /\ Runnable(k)
  /\ txq[k].i = Len(txq[k].paths) + 1
  /\ idb' = commit(idb, txq[k].writes)
  /\ txq' = RemoveAt(txq, k)
  /\ db' = IF txq[k].caller = "shutdown" THEN "closed" ELSE db
  /\ isReady' = IF txq[k].caller = "shutdown" THEN FALSE ELSE isReady
  /\ force' = IF txq[k].caller = "force" /\ force = "pending" THEN "resolved"
              ELSE force
  /\ shut' = IF txq[k].caller = "shutdown" /\ shut = "pending" THEN "resolved"
             ELSE shut
  /\ unsynced' = (unsynced \ txq[k].covered)
                   \cup (DOMAIN txq[k].writes \ txq[k].covered)
  /\ UNCHANGED <<memory, dirty, flushInterval, timers, opening>>
  /\ UNCHANGED <<last, restored, failed, kernelVars>>

\* A variant that puts the paths of the snapshot back in memory as the
\* store has them.
FlushFail_rollback(k) ==
  /\ txq[k].type = "flush"
  /\ Runnable(k)
  /\ txq' = RemoveAt(txq, k)
  /\ memory' = [x \in (DOMAIN memory \ Range(txq[k].paths))
                        \cup (DOMAIN idb \cap Range(txq[k].paths)) |->
                  IF x \in Range(txq[k].paths) THEN idb[x] ELSE memory[x]]
  /\ force' = IF txq[k].caller = "force" /\ force = "pending" THEN "rejected"
              ELSE force
  /\ shut' = IF txq[k].caller = "shutdown" /\ shut = "pending" THEN "rejected"
             ELSE shut
  /\ failed' = Some([paths |-> Range(txq[k].paths), memory |-> memory,
                     ready |-> isReady])
  /\ UNCHANGED <<dirty, db, flushInterval, isReady, timers, idb, opening>>
  /\ UNCHANGED <<last, unsynced, restored, kernelVars>>

\* The transaction aborts (quota, storage error): none of its requests
\* reaches the store and flush() rejects.
FlushFail(k) ==
  /\ txq[k].type = "flush"
  /\ Runnable(k)
  /\ txq' = RemoveAt(txq, k)
  /\ force' = IF txq[k].caller = "force" /\ force = "pending" THEN "rejected"
              ELSE force
  /\ shut' = IF txq[k].caller = "shutdown" /\ shut = "pending" THEN "rejected"
             ELSE shut
  /\ failed' = Some([paths |-> Range(txq[k].paths), memory |-> memory,
                     ready |-> isReady])
  /\ UNCHANGED <<memory, dirty, db, flushInterval, isReady, timers, idb, opening>>
  /\ UNCHANGED <<last, unsynced, restored, kernelVars>>

\* The interval set by init() fires and calls flush().
TimerFlush ==
  /\ timers # {}
  /\ FlushesInProgress < MaxFlushes
  /\ flush("timer")
  /\ UNCHANGED <<memory, db, flushInterval, isReady, timers, idb, opening>>
  /\ UNCHANGED <<ghostVars, kernelVars>>

\* forceFlush(): awaits one flush(); resolves at once when flush() returns
\* without doing anything.
CallForceFlush ==
  /\ isReady
  /\ \A k \in 1..Len(txq) : txq[k].type = "flush" => txq[k].caller # "force"
  /\ IF flushIsNoop
     THEN force' = "resolved" /\ UNCHANGED <<dirty, txq>>
     ELSE /\ FlushesInProgress < MaxFlushes
          /\ force' = "pending"
          /\ flush("force")
  /\ UNCHANGED <<memory, db, flushInterval, isReady, timers, idb, opening>>
  /\ UNCHANGED <<last, unsynced, restored, shut, failed, kernelVars>>

\* shutdown(): the interval is cleared, one flush() is awaited, then the
\* database is closed and isReady cleared; all in one turn when flush()
\* returns without doing anything.
CallShutdown ==
  /\ isReady
  /\ shut = "idle"
  /\ \A k \in 1..Len(txq) : txq[k].type = "flush" => txq[k].caller # "shutdown"
  /\ timers' = timers \ {flushInterval}
  /\ flushInterval' = 0
  /\ IF flushIsNoop
     THEN /\ db' = IF db = "null" THEN db ELSE "closed"
          /\ isReady' = FALSE
          /\ shut' = "resolved"
          /\ UNCHANGED <<dirty, txq>>
     ELSE /\ FlushesInProgress < MaxFlushes
          /\ flush("shutdown")
          /\ shut' = "pending"
          /\ UNCHANGED <<db, isReady>>
  /\ UNCHANGED <<memory, idb, opening>>
  /\ UNCHANGED <<last, force, unsynced, restored, failed, kernelVars>>

-----------------------------------------------------------------------------
(* Calls of the synchronous operations, direct or from a command handler *)

\* `had`: the path was stored when the call was made; `by`: the command
\* whose handler made the call, None for a direct call.
CallRec(by, op, path, data, result, mutated, afterWrite) ==
  [by |-> by, op |-> op, path |-> path, data |-> data, ready |-> isReady,
   had |-> MapHas(memory, path), result |-> result, mutated |-> mutated,
   afterWrite |-> afterWrite]

NoCall == [by |-> None, op |-> "none", path |-> <<>>, data |-> None,
           ready |-> FALSE, had |-> FALSE, result |-> Throw("none"),
           mutated |-> FALSE, afterWrite |-> None]

\* A path changed in memory is no longer covered by the requests made for it.
uncover(q, path) ==
  [k \in 1..Len(q) |->
     IF q[k].type = "flush" THEN [q[k] EXCEPT !.covered = @ \ {path}] ELSE q[k]]

Changed(path) ==
  /\ unsynced' = unsynced \cup {path}
  /\ force' = "idle"
  /\ shut' = IF shut = "pending" THEN "idle" ELSE shut
  /\ failed' = None
  /\ restored' = None
  /\ txq' = uncover(txq, path)

\* A call that reads only.
Query(by, op, path, result) ==
  /\ last' = CallRec(by, op, path, None, result, FALSE, None)
  /\ UNCHANGED diskVars
  /\ UNCHANGED <<force, unsynced, restored, shut, failed>>

\* readFileSync, with the bytes of the write that came right before it.
Read(by, path) ==
  /\ last' = CallRec(by, "readFileSync", path, None, readFileSync(path), FALSE,
                     IF last.op = "writeFileSync" /\ last.path = path
                        /\ last.result.status = "ok"
                     THEN last.data ELSE None)
  /\ UNCHANGED diskVars
  /\ UNCHANGED <<force, unsynced, restored, shut, failed>>

\* writeFileSync or unlinkSync, `r` being what the operation leaves.
Mutate(path, r) ==
  /\ memory' = r.memory
  /\ dirty' = r.dirty
  /\ IF r.status = "ok" THEN Changed(path)
     ELSE UNCHANGED <<unsynced, force, restored, shut, failed, txq>>
  /\ UNCHANGED <<db, flushInterval, isReady, timers, idb, opening>>

\* The same, with the call recorded.
Mutation(by, op, path, data, r) ==
  /\ Mutate(path, r)
  /\ last' = CallRec(by, op, path, data, [status |-> r.status, value |-> None],
                     r.memory # memory \/ r.dirty # dirty, None)

\* waitForBoot() called when no boot is in progress.
CallWaitForBoot ==
  /\ InitsInProgress = 0
  /\ ~isReady
  /\ init(None)
  /\ UNCHANGED <<memory, dirty, db, flushInterval, isReady, timers, idb, txq>>
  /\ UNCHANGED <<ghostVars, kernelVars>>

\* waitForBoot() on a disk that is ready returns at once.
CallWaitForBootReady ==
  /\ isReady
  /\ Query(None, "waitForBoot", <<>>, Return(TRUE))
  /\ UNCHANGED kernelVars

CallReadFileSync(path) == Read(None, path) /\ UNCHANGED kernelVars

CallExistsSync(path) ==
  Query(None, "existsSync", path, existsSync(path)) /\ UNCHANGED kernelVars

CallReaddirSync(path) ==
  Query(None, "readdirSync", path, readdirSync(path)) /\ UNCHANGED kernelVars

CallStatSync(path) ==
  Query(None, "statSync", path, statSync(path)) /\ UNCHANGED kernelVars

CallListFiles ==
  Query(None, "listFiles", <<>>, listFiles) /\ UNCHANGED kernelVars

CallWriteFileSync(path, data) ==
  /\ Mutation(None, "writeFileSync", path, Some(data), writeFileSync(path, data))
  /\ UNCHANGED kernelVars

CallUnlinkSync(path) ==
  /\ Mutation(None, "unlinkSync", path, None, unlinkSync(path))
  /\ UNCHANGED kernelVars

\* The two calls where what they return is not looked at.
WriteFile(path, data) ==
  /\ Mutate(path, writeFileSync(path, data))
  /\ UNCHANGED <<last, kernelVars>>

UnlinkFile(path) ==
  /\ Mutate(path, unlinkSync(path))
  /\ UNCHANGED <<last, kernelVars>>

\* The context ends (page reload) and a fresh one starts against the same
\* Backing Store: a new VirtualDisk, no timers; the transactions that were
\* still in progress are aborted.
Restart ==
  /\ restored' = IF isReady /\ unsynced = {} THEN Some(memory) ELSE None
  /\ memory' = EmptyMap
  /\ dirty' = <<>>
  /\ db' = "null"
  /\ flushInterval' = 0
  /\ isReady' = FALSE
  /\ timers' = {}
  /\ opening' = <<>>
  /\ txq' = <<>>
  /\ last' = NoCall
  /\ force' = "idle"
  /\ shut' = "idle"
  /\ failed' = None
  /\ unsynced' = {}
  /\ UNCHANGED <<idb, kernelVars>>

-----------------------------------------------------------------------------
(* useKernel: the controller *)

Pending == [state |-> "pending", value |-> Null]
\* A variant whose callback resolves whatever the message is.
Settled_resolveAll(msg) == [state |-> "resolved", value |-> msg.payload]

Settled(msg) ==
  [state |-> IF msg.type = "ERROR" THEN "rejected" ELSE "resolved",
   value |-> msg.payload]

\* sendCommand(command): a callback is stored under a new message id and the
\* command is posted.  `overlap`: an earlier command was still unanswered.
sendCommand(command) ==
  /\ messageId' = messageId + 1
  /\ pendingCallbacks' = Append(pendingCallbacks, messageId)
  /\ promises' = Append(promises, Pending)
  /\ inbox' = Append(inbox, command)
  /\ cmds' = Append(cmds, [type |-> command.type, path |-> command.path,
                           data |-> command.data, payload |-> command.payload,
                           ready |-> kernelReady,
                           overlap |-> pendingCallbacks # <<>>])
  /\ UNCHANGED <<outbox, kernelReady, sent, started, engineVars, aiVars, storeVars,
                 batcherVars>>
  /\ UNCHANGED <<diskVars, ghostVars>>

\* A sendCommand call of a controller that sends at most MaxCmds commands
\* and has no page around it.
postCommand(command) ==
  /\ messageId < MaxCmds
  /\ sendCommand(command)
  /\ UNCHANGED pageVars

send(command) == postCommand(command) /\ UNCHANGED terminalOutput

\* runPython(code): the output log is emptied and EXEC is sent.
runPython ==
  /\ terminalOutput' = <<>>
  /\ sendCommand(Command("EXEC", <<>>, <<>>, messageId))

RunPython ==
  /\ messageId < MaxCmds
  /\ runPython
  /\ UNCHANGED pageVars

SendCommand(type, path, data) == send(Command(type, path, data, messageId))

\* A command posted without the payload its type requires.
SendWithoutPayload(type) == send(WithoutPayload(type, messageId))

\* A variant of worker.onmessage without the TERMINAL_OUTPUT case.
Deliver_noOutputCase ==
  /\ outbox # <<>>
  /\ outbox' = Tail(outbox)
  /\ IF pendingCallbacks # <<>>
     THEN LET id == pendingCallbacks[1] IN
          /\ pendingCallbacks' = <<>>
          /\ promises' = [promises EXCEPT ![id + 1] = Settled(Head(outbox))]
          /\ kernelReady' = (kernelReady \/ (cmds[id + 1].type = "BOOT"
                                             /\ Head(outbox).type # "ERROR"))
          /\ UNCHANGED terminalOutput
     ELSE UNCHANGED <<pendingCallbacks, promises, kernelReady, terminalOutput>>
  /\ UNCHANGED <<inbox, messageId, cmds, sent, started, engineVars, aiVars, storeVars, pageVars,
                 batcherVars>>
  /\ UNCHANGED <<diskVars, ghostVars>>

\* worker.onmessage: a TERMINAL_OUTPUT is added to the output log; a
\* RESPONSE or ERROR goes to the first stored callback
\* and every stored callback is dropped; boot() sets isReady once its
\* command has resolved.
Deliver ==
  /\ outbox # <<>>
  /\ outbox' = Tail(outbox)
  /\ IF Head(outbox).type = "TERMINAL_OUTPUT"
     THEN /\ terminalOutput' = Append(terminalOutput, Head(outbox).payload)
          /\ UNCHANGED <<pendingCallbacks, promises, kernelReady>>
     ELSE IF pendingCallbacks # <<>>
     THEN LET id == pendingCallbacks[1] IN
          /\ pendingCallbacks' = <<>>
          /\ promises' = [promises EXCEPT ![id + 1] = Settled(Head(outbox))]
          /\ kernelReady' = (kernelReady \/ (cmds[id + 1].type = "BOOT"
                                             /\ Head(outbox).type # "ERROR"))
          /\ UNCHANGED terminalOutput
     ELSE UNCHANGED <<pendingCallbacks, promises, kernelReady, terminalOutput>>
  /\ UNCHANGED <<inbox, messageId, cmds, sent, started, engineVars, aiVars, storeVars, pageVars,
                 batcherVars>>
  /\ UNCHANGED <<diskVars, ghostVars>>

-----------------------------------------------------------------------------
(* The kernel worker: OutputBatcher *)

\* The texts written to the batcher and to standard output are sequences
\* of characters.
Chunks == {<<"a">>, <<"b">>, <<>>}
StdoutTexts == {<<"a">>, <<"a", "\n">>}

NoCommand == 0 - 1

Output(text) == Payload("output", text, "")

\* buffer.join('')
RECURSIVE join(_)
join(buf) == IF buf = <<>> THEN <<>> ELSE Head(buf).text \o join(Tail(buf))

Batcher == [buffer |-> buffer, timeoutId |-> timeoutId, timeouts |-> timeouts]

NewTimeout(b) ==
  CHOOSE t \in 1..(Cardinality(b.timeouts) + 1) : t \notin b.timeouts

\* A variant of write that puts the text in front of the buffer.
batcherWrite_unshift(b, text, by) ==
  [buffer |-> <<[text |-> text, by |-> by]>> \o b.buffer,
   timeoutId |-> IF b.timeoutId = 0 THEN NewTimeout(b) ELSE b.timeoutId,
   timeouts |-> IF b.timeoutId = 0 THEN b.timeouts \cup {NewTimeout(b)}
                ELSE b.timeouts]

\* OutputBatcher.write(text), called by the handler of command `by`
batcherWrite(b, text, by) ==
  [buffer |-> Append(b.buffer, [text |-> text, by |-> by]),
   timeoutId |-> IF b.timeoutId = 0 THEN NewTimeout(b) ELSE b.timeoutId,
   timeouts |-> IF b.timeoutId = 0 THEN b.timeouts \cup {NewTimeout(b)}
                ELSE b.timeouts]

\* OutputBatcher.flush(): the batcher it leaves and the payload it posts,
\* if any.  The timer that was scheduled is not cleared.
batcherFlush(b) ==
  IF b.buffer = <<>> THEN [batcher |-> b, post |-> None]
  ELSE [batcher |-> [buffer |-> <<>>, timeoutId |-> 0, timeouts |-> b.timeouts],
        post |-> Some(join(b.buffer))]

\* The record of a TERMINAL_OUTPUT posted: the commands whose handlers
\* produced it, how it was posted, and how many terminal messages had been
\* sent before it.
Emitted(text, by, via) ==
  [payload |-> text, by |-> by, via |-> via, after |-> Len(sent)]

\* The batcher is left as b, f being the flush made in this turn; the
\* messages in `then` are posted after the output.
batcherDone(b, f, then) ==
  /\ buffer' = f.batcher.buffer
  /\ timeoutId' = f.batcher.timeoutId
  /\ timeouts' = f.batcher.timeouts
  /\ IF f.post = None
     THEN /\ outbox' = outbox \o then
          /\ UNCHANGED emitted
     ELSE /\ outbox' = outbox
               \o <<Message("TERMINAL_OUTPUT", Output(f.post[1]), NoCommand)>>
               \o then
          /\ emitted' = Append(emitted,
               Emitted(f.post[1], {b.buffer[i].by : i \in 1..Len(b.buffer)},
                       "flush"))

\* outputBatcher.write(text) called on its own.
BatcherWrite(text) ==
  /\ Len(written) < MaxWrites
  /\ LET b == batcherWrite(Batcher, text, NoCommand) IN
     /\ buffer' = b.buffer
     /\ timeoutId' = b.timeoutId
     /\ timeouts' = b.timeouts
  /\ written' = Append(written, text)
  /\ UNCHANGED <<emitted, terminalOutput>>
  /\ UNCHANGED <<inbox, outbox, pendingCallbacks, messageId, promises,
                 kernelReady, cmds, sent, started, engineVars, aiVars, storeVars, pageVars>>
  /\ UNCHANGED <<diskVars, ghostVars>>

\* outputBatcher.flush() called on its own.
BatcherFlush ==
  /\ batcherDone(Batcher, batcherFlush(Batcher), <<>>)
  /\ UNCHANGED <<written, terminalOutput>>
  /\ UNCHANGED <<inbox, pendingCallbacks, messageId, promises,
                 kernelReady, cmds, sent, started, engineVars, aiVars, storeVars, pageVars>>
  /\ UNCHANGED <<diskVars, ghostVars>>

\* The setTimeout callback of write runs: `this.flush()`.
BatchTimerFires(id) ==
  /\ id \in timeouts
  /\ LET b == [Batcher EXCEPT !.timeouts = timeouts \ {id}] IN
     batcherDone(b, batcherFlush(b), <<>>)
  /\ UNCHANGED <<written, terminalOutput>>
  /\ UNCHANGED <<inbox, pendingCallbacks, messageId, promises,
                 kernelReady, cmds, sent, started, engineVars, aiVars, storeVars, pageVars>>
  /\ UNCHANGED <<diskVars, ghostVars>>

-----------------------------------------------------------------------------
(* The kernel worker: self.onmessage *)

\* A variant in which what a handler throws is not caught.
Answer_noCatch(status, payload) == [type |-> "RESPONSE", payload |-> payload]

Answer(status, payload) ==
  IF status = "ok" THEN [type |-> "RESPONSE", payload |-> payload]
  ELSE [type |-> "ERROR", payload |-> ErrorPayload(status)]

\* A variant of case 'BOOT' whose waitForBoot() has no `if (this.isReady)
\* return`.
HandleBoot_noReturn(c) ==
  /\ init(Some(c.id))
  /\ UNCHANGED <<outbox, sent>>
  /\ UNCHANGED <<memory, dirty, db, flushInterval, isReady, timers, idb, txq>>
  /\ UNCHANGED ghostVars

\* case 'BOOT': await fs.waitForBoot(), then 'Kernel Ready'.
HandleBoot(c) ==
  IF isReady
  THEN /\ Query(Some(c.id), "waitForBoot", <<>>, Return(TRUE))
       /\ Post("RESPONSE", Text("Kernel Ready"), c.id)
  ELSE /\ init(Some(c.id))
       /\ UNCHANGED <<outbox, sent>>
       /\ UNCHANGED <<memory, dirty, db, flushInterval, isReady, timers, idb, txq>>
       /\ UNCHANGED ghostVars

\* A variant of case 'READ_FILE' without the existsSync check.
HandleReadFile_noExists(c) ==
  LET r == readFileSync(c.path)
      a == Answer(r.status, IF r.status = "ok" THEN Data(r.value[1]) ELSE Null)
  IN /\ Read(Some(c.id), c.path)
     /\ Post(a.type, a.payload, c.id)

\* case 'READ_FILE': null when existsSync says no, the bytes otherwise.
HandleReadFile(c) ==
  IF ~existsSync(c.path).value[1]
  THEN /\ Query(Some(c.id), "existsSync", c.path, existsSync(c.path))
       /\ Post("RESPONSE", Null, c.id)
  ELSE LET r == readFileSync(c.path)
           a == Answer(r.status, IF r.status = "ok" THEN Data(r.value[1]) ELSE Null)
       IN /\ Read(Some(c.id), c.path)
          /\ Post(a.type, a.payload, c.id)

\* case 'WRITE_FILE'
HandleWriteFile(c) ==
  LET r == writeFileSync(c.path, c.data)
      a == Answer(r.status, Text("Written"))
  IN /\ Mutation(Some(c.id), "writeFileSync", c.path, Some(c.data), r)
     /\ Post(a.type, a.payload, c.id)

\* case 'DELETE_FILE': what unlinkSync throws is thrown again as
\* 'Failed to delete ...' and answered as an ERROR.
HandleDeleteFile(c) ==
  LET r == unlinkSync(c.path)
      a == Answer(r.status, Text("Deleted"))
  IN /\ Mutation(Some(c.id), "unlinkSync", c.path, None, r)
     /\ Post(a.type, a.payload, c.id)

\* listDir of case 'LIST_FILES': the entries of readdirSync(path), each
\* joined to path with a '/', directories followed by what is under them;
\* an entry whose statSync throws is skipped.
RECURSIVE listDir(_)
RECURSIVE listEntries(_, _, _)
listDir(path) ==
  LET r == readdirSync(path)
  IN IF r.status # "ok" THEN <<>> ELSE listEntries(path, r.value[1], <<>>)

listEntries(path, entries, allFiles) ==
  IF entries = <<>> THEN allFiles
  ELSE LET fullPath == path \o <<"/">> \o Head(entries)
           stat == statSync(fullPath)
       IN listEntries(path, Tail(entries),
            IF stat.status # "ok" THEN allFiles
            ELSE IF stat.value[1].isDirectory
            THEN Append(allFiles, fullPath \o <<"/">>) \o listDir(fullPath)
            ELSE Append(allFiles, fullPath))

Files(list) == Payload("files", list, "")

\* case 'LIST_FILES'
HandleListFiles(c) ==
  /\ Query(Some(c.id), "readdirSync", <<"/">>, readdirSync(<<"/">>))
  /\ Post("RESPONSE", Files(listDir(<<"/">>)), c.id)

Suspended(c, at) == [id |-> c.id, at |-> at]

\* A variant of case 'BOOT_PYTHON' without `if (pyodideReady)`.
HandleBootPython_reload(c, imported) ==
  /\ IF ~imported
     THEN /\ Post("ERROR", ErrorPayload("ImportFailed"), c.id)
          /\ UNCHANGED awaiting
     ELSE /\ awaiting' = awaiting \cup {Suspended(c, "loadPyodide")}
          /\ UNCHANGED <<outbox, sent>>
  /\ UNCHANGED <<pyodideReady, pyodide>>

\* case 'BOOT_PYTHON'; `imported`: importScripts fetched and ran pyodide.js
\* (it throws when it cannot).
HandleBootPython(c, imported) ==
  /\ IF pyodideReady
     THEN /\ Post("RESPONSE", Text("Python already loaded"), c.id)
          /\ UNCHANGED awaiting
     ELSE IF ~imported
     THEN /\ Post("ERROR", ErrorPayload("ImportFailed"), c.id)
          /\ UNCHANGED awaiting
     ELSE /\ awaiting' = awaiting \cup {Suspended(c, "loadPyodide")}
          /\ UNCHANGED <<outbox, sent>>
  /\ UNCHANGED <<pyodideReady, pyodide>>

\* A variant of case 'EXEC' that does not look at pyodideReady.
HandleExec_noCheck(c) ==
  /\ awaiting' = awaiting \cup {Suspended(c, "runPythonAsync")}
  /\ UNCHANGED <<outbox, sent>>
  /\ UNCHANGED <<pyodideReady, pyodide>>

\* case 'EXEC'
HandleExec(c) ==
  /\ IF ~pyodideReady \/ pyodide = "undefined"
     THEN /\ Post("ERROR", ErrorPayload("PythonNotLoaded"), c.id)
          /\ UNCHANGED awaiting
     ELSE /\ awaiting' = awaiting \cup {Suspended(c, "runPythonAsync")}
          /\ UNCHANGED <<outbox, sent>>
  /\ UNCHANGED <<pyodideReady, pyodide>>

\* `const sourceFile = `/tmp/program.${ext}``
sourceFile(ext) ==
  <<"/", "t", "m", "p", "/", "p", "r", "o", "g", "r", "a", "m", ".">> \o ext

\* The text case 'RUN_C' writes to the batcher; it names the source file.
Notice(file) == <<"Source code saved to ">> \o file

\* A variant of case 'RUN_C' / 'RUN_CPP' without `outputBatcher.flush()`.
HandleRunC_noFlush(c) ==
  LET file == sourceFile(IF c.type = "RUN_C" THEN <<"c">> ELSE <<"c", "p", "p">>)
      r == writeFileSync(file, c.data)
      b == batcherWrite(Batcher, Notice(file), c.id)
  IN /\ Mutation(Some(c.id), "writeFileSync", file, Some(c.data), r)
     /\ IF r.status # "ok"
        THEN /\ Post("ERROR", ErrorPayload(r.status), c.id)
             /\ UNCHANGED batcherVars
        ELSE /\ batcherDone(b, [batcher |-> b, post |-> None],
                  <<Message("RESPONSE", Text("C/C++ compilation requires additional WASM toolchain"), c.id)>>)
             /\ sent' = Append(sent,
                  Message("RESPONSE", Text("C/C++ compilation requires additional WASM toolchain"), c.id))
             /\ written' = Append(written, Notice(file))

\* case 'RUN_C' / 'RUN_CPP': the code (c.data, its UTF-8 bytes) is stored,
\* the notice is written to the batcher and flushed, then the RESPONSE.
HandleRunC(c) ==
  LET file == sourceFile(IF c.type = "RUN_C" THEN <<"c">> ELSE <<"c", "p", "p">>)
      r == writeFileSync(file, c.data)
      b == batcherWrite(Batcher, Notice(file), c.id)
  IN /\ Mutation(Some(c.id), "writeFileSync", file, Some(c.data), r)
     /\ IF r.status # "ok"
        THEN /\ Post("ERROR", ErrorPayload(r.status), c.id)
             /\ UNCHANGED batcherVars
        ELSE /\ batcherDone(b, batcherFlush(b),
                  <<Message("RESPONSE", Text("C/C++ compilation requires additional WASM toolchain"), c.id)>>)
             /\ sent' = Append(sent,
                  Message("RESPONSE", Text("C/C++ compilation requires additional WASM toolchain"), c.id))
             /\ written' = Append(written, Notice(file))

\* `if (!payload) throw new Error('... requires payload')`
NeedsPayload == {"READ_FILE", "WRITE_FILE", "EXEC", "RUN_C", "RUN_CPP",
                 "DELETE_FILE"}

HandleWithoutPayload(c) == Post("ERROR", ErrorPayload("RequiresPayload"), c.id)

\* default: throw new Error('Unknown command type')
HandleUnknown(c) == Post("ERROR", ErrorPayload("UnknownCommand"), c.id)

\* A message event is dispatched: the handler runs up to its first await
\* that does not resolve at once, or to its end.
Dispatch ==
  /\ inbox # <<>>
  /\ inbox' = Tail(inbox)
  /\ started' = started \cup {Head(inbox).id}
  /\ LET c == Head(inbox) IN
     CASE c.type = "BOOT" -> HandleBoot(c) /\ UNCHANGED <<engineVars, batcherVars>>
       [] c.type = "BOOT_PYTHON" ->
            /\ \E imported \in BOOLEAN : HandleBootPython(c, imported)
            /\ UNCHANGED <<diskVars, ghostVars, batcherVars>>
       [] c.type \in NeedsPayload /\ ~c.payload ->
            /\ HandleWithoutPayload(c)
            /\ UNCHANGED <<diskVars, ghostVars, engineVars, batcherVars>>
       [] c.type = "READ_FILE" /\ c.payload ->
            HandleReadFile(c) /\ UNCHANGED <<engineVars, batcherVars>>
       [] c.type = "WRITE_FILE" /\ c.payload ->
            HandleWriteFile(c) /\ UNCHANGED <<engineVars, batcherVars>>
       [] c.type = "DELETE_FILE" /\ c.payload ->
            HandleDeleteFile(c) /\ UNCHANGED <<engineVars, batcherVars>>
       [] c.type = "EXEC" /\ c.payload ->
            HandleExec(c) /\ UNCHANGED <<diskVars, ghostVars, batcherVars>>
       [] c.type \in {"RUN_C", "RUN_CPP"} /\ c.payload ->
            HandleRunC(c) /\ UNCHANGED engineVars
       [] c.type = "LIST_FILES" ->
            HandleListFiles(c) /\ UNCHANGED <<engineVars, batcherVars>>
       [] OTHER ->
            /\ HandleUnknown(c)
            /\ UNCHANGED <<diskVars, ghostVars, engineVars, batcherVars>>
  /\ UNCHANGED <<pendingCallbacks, messageId, promises, kernelReady, cmds,
                 aiVars, storeVars, pageVars, terminalOutput>>

\* loadPyodide resolves: self.pyodide and pyodideReady are set and the
\* handler answers.
PythonLoaded(t) ==
  /\ t.at = "loadPyodide"
  /\ awaiting' = awaiting \ {t}
  /\ pyodide' = "loaded"
  /\ pyodideReady' = TRUE
  /\ Post("RESPONSE", Text("Python runtime loaded"), t.id)
  /\ UNCHANGED <<inbox, pendingCallbacks, messageId, promises, kernelReady,
                 cmds, started, aiVars, storeVars, pageVars, outputVars>>
  /\ UNCHANGED <<diskVars, ghostVars>>

\* loadPyodide rejects: the handler ends in the catch block.
PythonLoadFailed(t) ==
  /\ t.at = "loadPyodide"
  /\ awaiting' = awaiting \ {t}
  /\ Post("ERROR", ErrorPayload("LoadFailed"), t.id)
  /\ UNCHANGED <<pyodideReady, pyodide>>
  /\ UNCHANGED <<inbox, pendingCallbacks, messageId, promises, kernelReady,
                 cmds, started, aiVars, storeVars, pageVars, outputVars>>
  /\ UNCHANGED <<diskVars, ghostVars>>

\* '\n' becomes '\r\n', and '\r\n' is added at the end when it is missing.
RECURSIVE crlf(_)
crlf(text) ==
  IF text = <<>> THEN <<>>
  ELSE (IF Head(text) = "\n" THEN <<"\r", "\n">> ELSE <<Head(text)>>)
       \o crlf(Tail(text))

endsWithCrlf(text) ==
  Len(text) >= 2 /\ SubSeq(text, Len(text) - 1, Len(text)) = <<"\r", "\n">>

finalOutput(text) ==
  IF endsWithCrlf(crlf(text)) THEN crlf(text) ELSE crlf(text) \o <<"\r", "\n">>

\* The stdout handler given to loadPyodide, called by the Python engine
\* while runPythonAsync of handler t is running.
Stdout(t, text) ==
  /\ t.at = "runPythonAsync"
  /\ Cardinality({i \in 1..Len(emitted) : emitted[i].via = "stdout"}) < MaxStdout
  /\ outbox' = Append(outbox,
       Message("TERMINAL_OUTPUT", Output(finalOutput(text)), NoCommand))
  /\ emitted' = Append(emitted, Emitted(finalOutput(text), {t.id}, "stdout"))
  /\ UNCHANGED <<buffer, timeoutId, timeouts, written, terminalOutput>>
  /\ UNCHANGED <<inbox, pendingCallbacks, messageId, promises, kernelReady,
                 cmds, sent, started, engineVars, aiVars, storeVars, pageVars>>
  /\ UNCHANGED <<diskVars, ghostVars>>

\* runPythonAsync settles: the result is answered, or the Python error.
ExecSettled(t, ok) ==
  /\ t.at = "runPythonAsync"
  /\ awaiting' = awaiting \ {t}
  /\ IF ok THEN Post("RESPONSE", Text("result"), t.id)
     ELSE Post("ERROR", ErrorPayload("PythonError"), t.id)
  /\ UNCHANGED <<pyodideReady, pyodide>>
  /\ UNCHANGED <<inbox, pendingCallbacks, messageId, promises, kernelReady,
                 cmds, started, aiVars, storeVars, pageVars, outputVars>>
  /\ UNCHANGED <<diskVars, ghostVars>>

-----------------------------------------------------------------------------
(* The AI worker: ai.worker.ts, and useAI which posts to it *)

GpuModel == "Llama-3-8B-Instruct-q4f32_1-MLC"
CpuModel == "Qwen2-0.5B-Instruct-q4f16_1-MLC"

\* `const selectedModel = requestedMode === 'gpu' ? ... : ...`
selectedModel(requestedMode) ==
  IF requestedMode = "gpu" THEN GpuModel ELSE CpuModel

\* A message of the AI worker; `mode` is the mode its text names, if any.
AIMessage(type, text, mode) == [type |-> type, text |-> text, mode |-> mode]

\* The engine CreateMLCEngine makes for the handler of command id.
Engine(model, id) == [model |-> model, by |-> id]

kernelWorkerVars == <<inbox, outbox, pendingCallbacks, messageId, promises,
                      kernelReady, cmds, sent, started, engineVars, outputVars>>

\* useAI sendCommand: bootAI(mode) and askAI(prompt) post without waiting
\* for the answers of earlier commands.
aiSendCommand(type, mode) ==
  /\ commandId < MaxAICmds
  /\ commandId' = commandId + 1
  /\ aiInbox' = Append(aiInbox, [type |-> type, mode |-> mode,
                                 id |-> commandId + 1])
  /\ UNCHANGED <<engine, loadedModelName, isBooting, currentMode, cacheMode,
                 aiAwaiting, aiSent, loadedEngines>>
  /\ UNCHANGED <<diskVars, ghostVars, kernelWorkerVars, storeVars, pageVars>>

\* The handler suspended in an await of case 'BOOT_AI' or 'GENERATE';
\* `target` is the engine the awaited call was made on.
AISuspended(id, at, mode, target) ==
  [id |-> id, at |-> at, mode |-> mode, target |-> target]

\* case 'BOOT_AI' from `if (isBooting)` on, for the handler of command id
\* that has `posted` in this turn already and leaves `others` suspended.
beginBoot(id, requestedMode, posted, others) ==
  IF isBooting
  THEN /\ aiSent' = posted
                      \o <<AIMessage("RESPONSE", "AI is currently loading...", "")>>
       /\ aiAwaiting' = others
       /\ UNCHANGED <<isBooting, currentMode>>
  ELSE /\ isBooting' = TRUE
       /\ currentMode' = requestedMode
       /\ IF requestedMode = "gpu"
          THEN /\ aiSent' = Append(posted,
                              AIMessage("PROGRESS", "Checking GPU compatibility...", ""))
               /\ aiAwaiting' = others
                    \cup {AISuspended(id, "checkWebGPUSupport", requestedMode, None)}
          ELSE /\ aiSent' = Append(posted,
                              AIMessage("PROGRESS", "Initializing", requestedMode))
               /\ aiAwaiting' = others
                    \cup {AISuspended(id, "bootEngine", requestedMode, None)}

\* case 'BOOT_AI' up to its first await
HandleBootAI(c) ==
  IF engine # None /\ loadedModelName = Some(selectedModel(c.mode))
  THEN /\ aiSent' = Append(aiSent, AIMessage("RESPONSE", "AI already loaded", c.mode))
       /\ UNCHANGED <<engine, loadedModelName, isBooting, currentMode,
                      cacheMode, aiAwaiting, loadedEngines>>
  ELSE IF engine # None
  THEN /\ aiSent' = Append(aiSent,
                      AIMessage("PROGRESS", "Unloading previous model...", ""))
       /\ aiAwaiting' = aiAwaiting
            \cup {AISuspended(c.id, "unload", c.mode, engine)}
       /\ UNCHANGED <<engine, loadedModelName, isBooting, currentMode,
                      cacheMode, loadedEngines>>
  ELSE /\ beginBoot(c.id, c.mode, aiSent, aiAwaiting)
       /\ UNCHANGED <<engine, loadedModelName, cacheMode, loadedEngines>>

\* The outer catch block: the ERROR is posted and isBooting is cleared,
\* whichever command has thrown.
aiCatch(text) ==
  /\ aiSent' = Append(aiSent, AIMessage("ERROR", text, ""))
  /\ isBooting' = FALSE

\* case 'GENERATE' up to its first await
HandleGenerate(c) ==
  IF engine = None
  THEN /\ aiCatch("AI not initialized. Call BOOT_AI first.")
       /\ UNCHANGED <<engine, loadedModelName, currentMode, cacheMode,
                      aiAwaiting, loadedEngines>>
  ELSE /\ aiAwaiting' = aiAwaiting
            \cup {AISuspended(c.id, "generate", currentMode, engine)}
       /\ UNCHANGED <<engine, loadedModelName, isBooting, currentMode,
                      cacheMode, aiSent, loadedEngines>>

\* default: throw new Error(`Unknown command: ${type}`)
HandleUnknownAI(c) ==
  /\ aiCatch("Unknown command")
  /\ UNCHANGED <<engine, loadedModelName, currentMode, cacheMode, aiAwaiting,
                 loadedEngines>>

\* self.onmessage of the AI worker
DispatchAI ==
  /\ aiInbox # <<>>
  /\ aiInbox' = Tail(aiInbox)
  /\ LET c == Head(aiInbox) IN
     CASE c.type = "BOOT_AI" -> HandleBootAI(c)
       [] c.type = "GENERATE" -> HandleGenerate(c)
       [] OTHER -> HandleUnknownAI(c)
  /\ UNCHANGED commandId
  /\ UNCHANGED <<diskVars, ghostVars, kernelWorkerVars, storeVars, pageVars>>

\* `await engine.unload()` settles: the try and the catch both clear engine
\* and loadedModelName, and the handler goes on to `if (isBooting)`.  The
\* engine counts as unloaded also when unload() has rejected.
UnloadSettled(t) ==
  /\ t.at = "unload"
  /\ engine' = None
  /\ loadedModelName' = None
  /\ loadedEngines' = loadedEngines \ {t.target[1]}
  /\ beginBoot(t.id, t.mode, aiSent, aiAwaiting \ {t})
  /\ UNCHANGED <<cacheMode, aiInbox, commandId>>
  /\ UNCHANGED <<diskVars, ghostVars, kernelWorkerVars, storeVars, pageVars>>

\* checkWebGPUSupport settles.
GpuChecked(t, supported) ==
  /\ t.at = "checkWebGPUSupport"
  /\ IF supported
     THEN /\ aiSent' = Append(aiSent,
                         AIMessage("PROGRESS", "Initializing", currentMode))
          /\ aiAwaiting' = (aiAwaiting \ {t})
               \cup {AISuspended(t.id, "bootEngine", t.mode, None)}
          /\ UNCHANGED isBooting
     ELSE /\ aiCatch("GPU NOT AVAILABLE")
          /\ aiAwaiting' = aiAwaiting \ {t}
  /\ UNCHANGED <<engine, loadedModelName, currentMode, cacheMode, aiInbox,
                 commandId, loadedEngines>>
  /\ UNCHANGED <<diskVars, ghostVars, kernelWorkerVars, storeVars, pageVars>>

\* bootEngine resolves, with the persistent cache or in RAM-only mode; the
\* reports of the library's progress callback are left out.
EngineBooted(t, cache) ==
  /\ t.at = "bootEngine"
  /\ aiAwaiting' = aiAwaiting \ {t}
  /\ engine' = Some(Engine(selectedModel(t.mode), t.id))
  /\ loadedModelName' = Some(selectedModel(t.mode))
  /\ loadedEngines' = loadedEngines \cup {Engine(selectedModel(t.mode), t.id)}
  /\ cacheMode' = cache
  /\ isBooting' = FALSE
  /\ aiSent' = aiSent
       \o (IF cache = "ram-only"
           THEN <<AIMessage("PROGRESS", "[Warning] Persistent cache unavailable", ""),
                  AIMessage("PROGRESS", "[Info] RAM-only mode", "")>>
           ELSE <<>>)
       \o <<AIMessage("PROGRESS", "Model loaded! " \o cache, ""),
            AIMessage("RESPONSE", "AI Brain activated! " \o cache, currentMode)>>
  /\ UNCHANGED <<currentMode, aiInbox, commandId>>
  /\ UNCHANGED <<diskVars, ghostVars, kernelWorkerVars, storeVars, pageVars>>

\* bootEngine rejects: the inner catch clears isBooting and engine and
\* throws again to the outer catch.
EngineBootFailed(t, wasm) ==
  /\ t.at = "bootEngine"
  /\ aiAwaiting' = aiAwaiting \ {t}
  /\ engine' = None
  /\ aiCatch(IF wasm THEN "WebGPU/WASM initialization failed"
             ELSE "Failed to initialize AI")
  /\ UNCHANGED <<loadedModelName, currentMode, cacheMode, aiInbox, commandId,
                 loadedEngines>>
  /\ UNCHANGED <<diskVars, ghostVars, kernelWorkerVars, storeVars, pageVars>>

\* The stream of case 'GENERATE' ends (one chunk); or it throws, and a
\* WASM error makes the outer catch clear engine: the engine that was
\* generating counts as lost.
GenerateSettled(t, outcome) ==
  /\ t.at = "generate"
  /\ aiAwaiting' = aiAwaiting \ {t}
  /\ CASE outcome = "ok" ->
            /\ aiSent' = aiSent \o <<AIMessage("AI_OUTPUT", "delta", ""),
                                     AIMessage("RESPONSE", "fullResponse", "")>>
            /\ UNCHANGED <<engine, isBooting, loadedEngines>>
       [] outcome = "error" ->
            /\ aiCatch("Generation error")
            /\ UNCHANGED <<engine, loadedEngines>>
       [] OTHER ->
            /\ aiCatch("AI engine lost connection.")
            /\ engine' = None
            /\ loadedEngines' = loadedEngines \ {t.target[1]}
  /\ UNCHANGED <<loadedModelName, currentMode, cacheMode, aiInbox, commandId>>
  /\ UNCHANGED <<diskVars, ghostVars, kernelWorkerVars, storeVars, pageVars>>

-----------------------------------------------------------------------------
(* The file-tree store (useFileSystem) *)

\* Names given to new nodes and to renamed ones.
StoreNames == {<<"a">>, <<"b">>}
MainPy == <<"m", "a", "i", "n", ".", "p", "y">>

\* Parent paths given to createFile and createFolder.
StoreParents == {<<"/">>, <<"/", "a">>, <<"/", "b">>}

\* Paths given to the other calls.
StorePaths == {<<"/">> \o MainPy} \cup
              {<<"/">> \o n : n \in StoreNames} \cup
              {<<"/">> \o n \o <<"/">> \o m : n, m \in StoreNames}

\* Paths given to openFile and closeFile, and to renameFile.
OpenPaths == {<<"/">> \o MainPy, <<"/", "a", "/", "b">>}
RenamePaths == {<<"/", "a">>, <<"/", "a", "/", "b">>}

\* Array.prototype.join('/') on an array of strings
RECURSIVE joinSlash(_)
joinSlash(parts) ==
  IF Len(parts) <= 1 THEN (IF parts = <<>> THEN <<>> ELSE parts[1])
  ELSE parts[1] \o <<"/">> \o joinSlash(Tail(parts))

\* String.prototype.replace(old, new) with a string pattern: the first
\* occurrence only.
replace(s, old, new) ==
  LET at == {i \in 1..(Len(s) - Len(old) + 1) :
               SubSeq(s, i, i + Len(old) - 1) = old}
  IN IF at = {} THEN s
     ELSE LET i == CHOOSE j \in at : \A k \in at : j <= k
          IN SubSeq(s, 1, i - 1) \o new \o SubSeq(s, i + Len(old), Len(s))

\* A FileNode; a property the object does not have is None.
FileNode(id, name, type, path, content, language, children, isOpen, isExpanded) ==
  [id |-> id, name |-> name, type |-> type, path |-> path,
   content |-> content, language |-> language, children |-> children,
   isOpen |-> isOpen, isExpanded |-> isExpanded]

\* The initial `files`; the ids of crypto.randomUUID() are 2, 3, ...
InitialFiles ==
  <<FileNode(1, MainPy, "file", <<"/">> \o MainPy,
             Some("# Welcome to VOID IDE\nprint(\"Hello, World!\")"),
             Some("python"), None, Some(TRUE), None)>>

randomUUID == uuid + 2

getLanguageFromFilename(filename) ==
  IF endsWith(filename, <<".", "p", "y">>) THEN "python"
  ELSE IF endsWith(filename, <<".", "c">>) THEN "c"
  ELSE IF \/ endsWith(filename, <<".", "c", "p", "p">>)
          \/ endsWith(filename, <<".", "c", "c">>)
          \/ endsWith(filename, <<".", "c", "x", "x">>) THEN "cpp"
  ELSE "text"

RECURSIVE searchTree_topLevel(_, _)
\* A variant of searchTree that does not look into children.
searchTree_topLevel(nodes, path) ==
  IF nodes = <<>> THEN None
  ELSE IF Head(nodes).path = path THEN Some(Head(nodes))
  ELSE searchTree_topLevel(Tail(nodes), path)

RECURSIVE searchTree(_, _)
\* searchTree of findFileByPath: the first node with the path, depth first.
searchTree(nodes, path) ==
  IF nodes = <<>> THEN None
  ELSE LET node == Head(nodes)
           found == IF node.children # None
                    THEN searchTree(node.children[1], path) ELSE None
       IN IF node.path = path THEN Some(node)
          ELSE IF found # None THEN found
          ELSE searchTree(Tail(nodes), path)

findFileByPath(path) == searchTree(files, path)

RECURSIVE updateTree(_, _, _)
\* updateTree of createFile and createFolder
updateTree(nodes, parentPath, newNode) ==
  [i \in 1..Len(nodes) |->
     LET node == nodes[i] IN
     IF node.path = parentPath /\ node.type = "folder"
     THEN [node EXCEPT !.children =
             Some((IF node.children # None THEN node.children[1] ELSE <<>>)
                  \o <<newNode>>)]
     ELSE IF node.children # None
     THEN [node EXCEPT !.children =
             Some(updateTree(node.children[1], parentPath, newNode))]
     ELSE node]

RECURSIVE removeFromTree(_, _)
removeFromTree(nodes, path) ==
  LET kept == SelectSeq(nodes, LAMBDA node : node.path # path)
  IN [i \in 1..Len(kept) |->
        IF kept[i].children # None
        THEN [kept[i] EXCEPT !.children =
                Some(removeFromTree(kept[i].children[1], path))]
        ELSE kept[i]]

RECURSIVE updateChildrenPaths(_, _, _)
updateChildrenPaths(children, oldBasePath, newBasePath) ==
  IF children = None THEN None
  ELSE Some([i \in 1..Len(children[1]) |->
               LET child == children[1][i] IN
               [child EXCEPT
                  !.path = replace(child.path, oldBasePath, newBasePath),
                  !.children = updateChildrenPaths(child.children,
                                                   oldBasePath, newBasePath)]])

RECURSIVE renameInTree(_, _, _)
renameInTree(nodes, path, newName) ==
  [i \in 1..Len(nodes) |->
     LET node == nodes[i] IN
     IF node.path = path
     THEN LET pathParts == split(path)
              newPath == joinSlash([pathParts EXCEPT ![Len(pathParts)] = newName])
          IN [node EXCEPT
                !.name = newName,
                !.path = newPath,
                !.children = IF node.type = "folder"
                             THEN updateChildrenPaths(node.children, path, newPath)
                             ELSE None]
     ELSE IF node.children # None
     THEN [node EXCEPT !.children =
             Some(renameInTree(node.children[1], path, newName))]
     ELSE node]

\* The record of a call of createFile or createFolder, until the next call
\* of the store: the path of the new node and the state the call was made
\* in.
StoreCall(op, path, before) == [op |-> op, path |-> path, before |-> before]
NoStoreCall == StoreCall("none", <<>>, None)
StoreState == [files |-> files, openFiles |-> openFiles,
               currentFile |-> currentFile]

notStore == <<diskVars, ghostVars, kernelWorkerVars, aiVars, pageVars>>

\* set() of createFile and createFolder
addNode(parentPath, newNode) ==
  /\ uuid < MaxNodes
  /\ uuid' = uuid + 1
  /\ files' = IF parentPath = <<"/">> THEN Append(files, newNode)
              ELSE updateTree(files, parentPath, newNode)
  /\ UNCHANGED <<currentFile, openFiles>>

\* `language`: "" when the argument is not given.
createFile(parentPath, name, language) ==
  LET newPath == IF parentPath = <<"/">> THEN <<"/">> \o name
                 ELSE parentPath \o <<"/">> \o name
      existingFile == findFileByPath(newPath)
      newFile == FileNode(randomUUID, name, "file", newPath, Some(""),
                          Some(IF language # "" THEN language
                               ELSE getLanguageFromFilename(name)),
                          None, Some(FALSE), None)
  IN /\ IF existingFile # None
        THEN UNCHANGED <<files, currentFile, openFiles, uuid>>
        ELSE addNode(parentPath, newFile)
     /\ storeLast' = StoreCall("createFile", newPath, Some(StoreState))
     /\ UNCHANGED notStore

createFolder(parentPath, name) ==
  LET newPath == IF parentPath = <<"/">> THEN <<"/">> \o name
                 ELSE parentPath \o <<"/">> \o name
      existingFolder == findFileByPath(newPath)
      newFolder == FileNode(randomUUID, name, "folder", newPath, None, None,
                            Some(<<>>), None, Some(FALSE))
  IN /\ IF existingFolder # None
        THEN UNCHANGED <<files, currentFile, openFiles, uuid>>
        ELSE addNode(parentPath, newFolder)
     /\ storeLast' = StoreCall("createFolder", newPath, Some(StoreState))
     /\ UNCHANGED notStore

setCurrentFile(path) ==
  LET file == findFileByPath(path) IN
  /\ currentFile' = IF file # None /\ file[1].type = "file"
                    THEN file ELSE currentFile
  /\ storeLast' = NoStoreCall
  /\ UNCHANGED <<files, openFiles, uuid, notStore>>

deleteFile(path) ==
  /\ files' = removeFromTree(files, path)
  /\ openFiles' = SelectSeq(openFiles, LAMBDA f :
                     f.path # path /\ ~startsWith(f.path, path \o <<"/">>))
  /\ currentFile' = IF /\ currentFile # None
                       /\ \/ currentFile[1].path = path
                          \/ startsWith(currentFile[1].path, path \o <<"/">>)
                    THEN None ELSE currentFile
  /\ storeLast' = NoStoreCall
  /\ UNCHANGED <<uuid, notStore>>

renameFile(path, newName) ==
  /\ files' = renameInTree(files, path, newName)
  /\ storeLast' = NoStoreCall
  /\ UNCHANGED <<currentFile, openFiles, uuid, notStore>>

openFile(path) ==
  LET file == findFileByPath(path) IN
  /\ IF file = None \/ file[1].type # "file"
     THEN UNCHANGED <<currentFile, openFiles>>
     ELSE /\ currentFile' = file
          /\ openFiles' = IF \E i \in 1..Len(openFiles) : openFiles[i].path = path
                          THEN openFiles ELSE Append(openFiles, file[1])
  /\ storeLast' = NoStoreCall
  /\ UNCHANGED <<files, uuid, notStore>>

closeFile(path) ==
  /\ openFiles' = SelectSeq(openFiles, LAMBDA f : f.path # path)
  /\ currentFile' = IF currentFile # None /\ currentFile[1].path = path
                    THEN None ELSE currentFile
  /\ storeLast' = NoStoreCall
  /\ UNCHANGED <<files, uuid, notStore>>

-----------------------------------------------------------------------------
(* The page (app/page.tsx): boot effect, Run button, terminal output effect *)

MaxRuns == 2         \* times the Run button is pressed

MainPyPath == <<"/">> \o MainPy

\* The promise the page is waiting for: the one of the command sent last.
Awaited == promises[messageId]

\* A step of the page that sends no command.
noCommand ==
  UNCHANGED <<inbox, outbox, pendingCallbacks, messageId, promises,
              kernelReady, cmds, sent, started, engineVars, aiVars,
              storeVars, outputVars, diskVars, ghostVars>>

\* handleRunPython calls so far, and runPython calls so far
Runs == Cardinality({i \in 1..Len(cmds) : cmds[i].type = "WRITE_FILE"})
PythonRuns == Cardinality({i \in 1..Len(cmds) : cmds[i].type = "EXEC"})

\* The boot effect up to `await kernel.boot()`
PageMount ==
  /\ pagePc = "mount"
  /\ sendCommand(Command("BOOT", <<>>, <<>>, messageId))
  /\ pagePc' = "boot"
  /\ UNCHANGED <<terminalOutput, pythonLoaded, lastOutputIndex, termWrites,
                 effectSeen>>

\* kernel.boot() has settled: on to `await kernel.bootPython()`, or to the
\* outer catch.
AfterBoot ==
  /\ pagePc = "boot" /\ Awaited # Pending
  /\ IF Awaited.state = "resolved"
     THEN /\ sendCommand(Command("BOOT_PYTHON", <<>>, <<>>, messageId))
          /\ pagePc' = "preload"
          /\ UNCHANGED terminalOutput
     ELSE /\ noCommand
          /\ pagePc' = "idle"
  /\ UNCHANGED <<pythonLoaded, lastOutputIndex, termWrites, effectSeen>>

\* The preload has settled: setPythonLoaded(true) when it resolved; on to
\* `await kernel.readFile('/main.py')`.
AfterPreload ==
  /\ pagePc = "preload" /\ Awaited # Pending
  /\ pythonLoaded' = (Awaited.state = "resolved")
  /\ sendCommand(Command("READ_FILE", MainPyPath, <<>>, messageId))
  /\ pagePc' = "readMain"
  /\ UNCHANGED <<terminalOutput, lastOutputIndex, termWrites, effectSeen>>

\* readFile has settled: the editor gets the saved or the default code.
AfterReadMain ==
  /\ pagePc = "readMain" /\ Awaited # Pending
  /\ pagePc' = "idle"
  /\ noCommand
  /\ UNCHANGED <<pythonLoaded, lastOutputIndex, termWrites, effectSeen>>

\* handleRunPython up to `await kernel.writeFile('/main.py', data)`: the
\* terminal is cleared and lastOutputIndex is reset.
handleRunPython ==
  /\ pagePc = "idle" /\ kernelReady
  /\ Runs < MaxRuns
  /\ lastOutputIndex' = 0
  /\ sendCommand(Command("WRITE_FILE", MainPyPath, <<0>>, messageId))
  /\ pagePc' = "save"
  /\ UNCHANGED <<terminalOutput, pythonLoaded, termWrites, effectSeen>>

\* writeFile has settled: `if (!pythonLoaded)` bootPython, else runPython.
AfterSave ==
  /\ pagePc = "save" /\ Awaited # Pending
  /\ IF Awaited.state = "rejected"
     THEN /\ noCommand
          /\ pagePc' = "idle"
     ELSE IF ~pythonLoaded
     THEN /\ sendCommand(Command("BOOT_PYTHON", <<>>, <<>>, messageId))
          /\ pagePc' = "load"
          /\ UNCHANGED terminalOutput
     ELSE /\ runPython
          /\ pagePc' = "run"
  /\ UNCHANGED <<pythonLoaded, lastOutputIndex, termWrites, effectSeen>>

\* bootPython of handleRunPython has settled: setPythonLoaded(true) and
\* runPython, or the catch.
AfterLoad ==
  /\ pagePc = "load" /\ Awaited # Pending
  /\ IF Awaited.state = "rejected"
     THEN /\ noCommand
          /\ pagePc' = "idle"
          /\ UNCHANGED pythonLoaded
     ELSE /\ pythonLoaded' = TRUE
          /\ runPython
          /\ pagePc' = "run"
  /\ UNCHANGED <<lastOutputIndex, termWrites, effectSeen>>

\* runPython has settled: the result or the error is written.
AfterRun ==
  /\ pagePc = "run" /\ Awaited # Pending
  /\ pagePc' = "idle"
  /\ noCommand
  /\ UNCHANGED <<pythonLoaded, lastOutputIndex, termWrites, effectSeen>>

\* A chunk of the output log: the runPython call whose log it is in, its
\* position in that log, and its text.
Chunk(run, pos, text) == [run |-> run, pos |-> pos, text |-> text]

\* The terminal output effect has not run since terminalOutput or
\* lastOutputIndex changed.
EffectDue == effectSeen # <<terminalOutput, lastOutputIndex>>

\* terminalOutput.slice(lastOutputIndex), each line written
TerminalWrites ==
  [k \in 1..(Len(terminalOutput) - lastOutputIndex) |->
     Chunk(PythonRuns, lastOutputIndex + k,
           terminalOutput[lastOutputIndex + k])]

\* useEffect(..., [kernel.terminalOutput, lastOutputIndex])
TerminalEffect ==
  /\ EffectDue
  /\ effectSeen' = <<terminalOutput, lastOutputIndex>>
  /\ IF Len(terminalOutput) > lastOutputIndex
     THEN /\ termWrites' = termWrites \o TerminalWrites
          /\ lastOutputIndex' = Len(terminalOutput)
     ELSE UNCHANGED <<termWrites, lastOutputIndex>>
  /\ UNCHANGED <<pagePc, pythonLoaded>>
  /\ noCommand

-----------------------------------------------------------------------------
(* The disk driven through its API *)

InitDisk ==
  /\ memory = EmptyMap
  /\ dirty = <<>>
  /\ db = "null"
  /\ flushInterval = 0
  /\ isReady = FALSE
  /\ timers = {}
  /\ idb = EmptyMap
  /\ opening = <<>>
  /\ txq = <<>>
  /\ last = NoCall
  /\ force = "idle"
  /\ unsynced = {}
  /\ restored = None
  /\ shut = "idle"
  /\ failed = None
  /\ inbox = <<>>
  /\ outbox = <<>>
  /\ pendingCallbacks = <<>>
  /\ messageId = 0
  /\ promises = <<>>
  /\ kernelReady = FALSE
  /\ cmds = <<>>
  /\ sent = <<>>
  /\ started = {}
  /\ pyodideReady = FALSE
  /\ engine = None
  /\ loadedModelName = None
  /\ isBooting = FALSE
  /\ currentMode = "gpu"
  /\ cacheMode = "persistent"
  /\ aiInbox = <<>>
  /\ aiAwaiting = {}
  /\ aiSent = <<>>
  /\ commandId = 0
  /\ loadedEngines = {}
  /\ buffer = <<>>
  /\ timeoutId = 0
  /\ timeouts = {}
  /\ emitted = <<>>
  /\ written = <<>>
  /\ terminalOutput = <<>>
  /\ files = InitialFiles
  /\ currentFile = None
  /\ openFiles = <<>>
  /\ uuid = 0
  /\ storeLast = NoStoreCall
  /\ pagePc = "mount"
  /\ pythonLoaded = FALSE
  /\ lastOutputIndex = 0
  /\ termWrites = <<>>
  /\ effectSeen = <<<<>>, 0>>
  /\ pyodide = "undefined"
  /\ awaiting = {}

\* The synchronous calls against boot and the flushes of the timer, one at
\* a time (overlapping flushes are in NextFlush).
NextDisk ==
  \/ CallWaitForBoot
  \/ CallWaitForBootReady
  \/ InitOpenFailed
  \/ InitOpened
  \/ \E k \in 1..Len(txq) : InitGetAll(k)
  \/ \E k \in 1..Len(txq) : InitDone(k)
  \/ \E path \in DiskPaths : CallReadFileSync(path)
  \/ \E path \in DiskPaths, data \in Bytes : CallWriteFileSync(path, data)
  \/ \E path \in DiskPaths : CallExistsSync(path)
  \/ \E path \in DiskPaths : CallUnlinkSync(path)
  \/ FlushesInProgress = 0 /\ TimerFlush
  \/ \E k \in 1..Len(txq) : FlushStep(k)
  \/ \E k \in 1..Len(txq) : FlushCommit(k)
  \/ \E k \in 1..Len(txq) : FlushFail(k)

SpecDisk == InitDisk /\ [][NextDisk]_vars

\* Writes and deletes against the timer, forceFlush and fresh contexts.
NextFlush ==
  \/ CallWaitForBoot
  \/ InitOpenFailed
  \/ InitOpened
  \/ \E k \in 1..Len(txq) : InitGetAll(k)
  \/ \E k \in 1..Len(txq) : InitDone(k)
  \/ \E path \in DiskPaths, data \in Bytes : WriteFile(path, data)
  \/ \E path \in DiskPaths : UnlinkFile(path)
  \/ TimerFlush
  \/ CallForceFlush
  \/ \E k \in 1..Len(txq) : FlushStep(k)
  \/ \E k \in 1..Len(txq) : FlushCommit(k)
  \/ \E k \in 1..Len(txq) : FlushFail(k)
  \/ Restart

SpecFlush == InitDisk /\ [][NextFlush]_vars

\* Directory listing and stat over nested paths; the flush timer does not
\* fire in the window observed.
NextDir ==
  \/ CallWaitForBoot
  \/ InitOpenFailed
  \/ InitOpened
  \/ \E k \in 1..Len(txq) : InitGetAll(k)
  \/ \E k \in 1..Len(txq) : InitDone(k)
  \/ \E path \in DirPaths, data \in Bytes :
        /\ path \in Range(dirty) \/ Len(dirty) < MaxTouched
        /\ CallWriteFileSync(path, data)
  \/ \E path \in DirPaths :
        /\ path \in Range(dirty) \/ Len(dirty) < MaxTouched
        /\ CallUnlinkSync(path)
  \/ \E path \in DirQueries : CallReaddirSync(path)
  \/ \E path \in DirQueries : CallStatSync(path)
  \/ CallListFiles

SpecDir == InitDisk /\ [][NextDir]_vars

\* The controller driving the worker by commands; the flush timer does not
\* fire in the window observed.
NextKernel ==
  \/ SendCommand("BOOT", <<>>, <<>>)
  \/ \E path \in DiskPaths : SendCommand("READ_FILE", path, <<>>)
  \/ \E path \in DiskPaths, data \in Bytes : SendCommand("WRITE_FILE", path, data)
  \/ \E path \in DiskPaths : SendCommand("DELETE_FILE", path, <<>>)
  \/ Dispatch
  \/ Deliver
  \/ InitOpenFailed
  \/ InitOpened
  \/ \E k \in 1..Len(txq) : InitGetAll(k)
  \/ \E k \in 1..Len(txq) : InitDone(k)

SpecKernel == InitDisk /\ [][NextKernel]_vars

\* Every kind of command posted to the worker, the unknown and the
\* malformed included, on one path; the answers are not delivered in the
\* window observed.
NextEngine ==
  \/ SendCommand("BOOT", <<>>, <<>>)
  \/ SendCommand("BOOT_PYTHON", <<>>, <<>>)
  \/ SendCommand("EXEC", <<>>, <<>>)
  \/ SendCommand("LIST_FILES", <<>>, <<>>)
  \/ SendCommand("READ_FILE", P_a, <<>>)
  \/ SendCommand("WRITE_FILE", P_a, <<0>>)
  \/ SendCommand("DELETE_FILE", P_a, <<>>)
  \/ SendCommand("NOP", <<>>, <<>>)
  \/ SendWithoutPayload("WRITE_FILE")
  \/ Dispatch
  \/ InitOpenFailed
  \/ InitOpened
  \/ \E k \in 1..Len(txq) : InitGetAll(k)
  \/ \E k \in 1..Len(txq) : InitDone(k)
  \/ \E t \in awaiting : PythonLoaded(t)
  \/ \E t \in awaiting : PythonLoadFailed(t)
  \/ \E t \in awaiting, ok \in BOOLEAN : ExecSettled(t, ok)

SpecEngine == InitDisk /\ [][NextEngine]_vars

\* bootAI in both modes, askAI and an unknown command posted to the AI
\* worker in any order, none waiting for the answer of another.
NextAI ==
  \/ aiSendCommand("BOOT_AI", "gpu")
  \/ aiSendCommand("BOOT_AI", "cpu")
  \/ aiSendCommand("GENERATE", "")
  \/ aiSendCommand("NOP", "")
  \/ DispatchAI
  \/ \E t \in aiAwaiting : UnloadSettled(t)
  \/ \E t \in aiAwaiting, supported \in BOOLEAN : GpuChecked(t, supported)
  \/ \E t \in aiAwaiting, cache \in {"persistent", "ram-only"} :
       EngineBooted(t, cache)
  \/ \E t \in aiAwaiting, wasm \in BOOLEAN : EngineBootFailed(t, wasm)
  \/ \E t \in aiAwaiting, outcome \in {"ok", "error", "wasm"} :
       GenerateSettled(t, outcome)

SpecAI == InitDisk /\ [][NextAI]_vars

\* The commands that produce output, sent without waiting for answers, with
\* the engine's standard output, the batcher's timers and the delivery of
\* the worker's messages to the controller; the store opens and the engine
\* loads.
NextOutput ==
  \/ SendCommand("BOOT", <<>>, <<>>)
  \/ SendCommand("BOOT_PYTHON", <<>>, <<>>)
  \/ RunPython
  \/ SendCommand("RUN_C", <<>>, <<0>>)
  \/ Dispatch
  \/ InitOpened
  \/ \E k \in 1..Len(txq) : InitGetAll(k)
  \/ \E k \in 1..Len(txq) : InitDone(k)
  \/ \E t \in awaiting : PythonLoaded(t)
  \/ \E t \in awaiting, text \in StdoutTexts : Stdout(t, text)
  \/ \E t \in awaiting, ok \in BOOLEAN : ExecSettled(t, ok)
  \/ \E id \in timeouts : BatchTimerFires(id)
  \/ Deliver

SpecOutput == InitDisk /\ [][NextOutput]_vars

\* The controller used as the UI uses it: a command is sent only when no
\* other command is outstanding.
NextSerial ==
  \/ pendingCallbacks = <<>> /\ SendCommand("BOOT", <<>>, <<>>)
  \/ pendingCallbacks = <<>> /\ SendCommand("BOOT_PYTHON", <<>>, <<>>)
  \/ pendingCallbacks = <<>> /\ RunPython
  \/ pendingCallbacks = <<>> /\ SendCommand("RUN_C", <<>>, <<0>>)
  \/ pendingCallbacks = <<>> /\ SendCommand("READ_FILE", P_a, <<>>)
  \/ pendingCallbacks = <<>> /\ SendCommand("WRITE_FILE", P_a, <<0>>)
  \/ pendingCallbacks = <<>> /\ SendCommand("DELETE_FILE", P_a, <<>>)
  \/ Dispatch
  \/ InitOpenFailed
  \/ InitOpened
  \/ \E k \in 1..Len(txq) : InitGetAll(k)
  \/ \E k \in 1..Len(txq) : InitDone(k)
  \/ \E t \in awaiting : PythonLoaded(t)
  \/ \E t \in awaiting : PythonLoadFailed(t)
  \/ \E t \in awaiting, text \in StdoutTexts : Stdout(t, text)
  \/ \E t \in awaiting, ok \in BOOLEAN : ExecSettled(t, ok)
  \/ \E id \in timeouts : BatchTimerFires(id)
  \/ Deliver

SpecSerial == InitDisk /\ [][NextSerial]_vars

\* The OutputBatcher on its own: writes, manual flushes and its timers,
\* every timer firing at some time.
NextBatcher ==
  \/ \E text \in Chunks : BatcherWrite(text)
  \/ BatcherFlush
  \/ \E id \in timeouts : BatchTimerFires(id)

SpecBatcher ==
  /\ InitDisk /\ [][NextBatcher]_vars
  /\ WF_vars(\E id \in timeouts : BatchTimerFires(id))

\* Writes and deletes against the timer and shutdown(); the disk is not
\* booted again after shutdown() in the window observed.
NextShut ==
  \/ shut = "idle" /\ CallWaitForBoot
  \/ InitOpenFailed
  \/ InitOpened
  \/ \E k \in 1..Len(txq) : InitGetAll(k)
  \/ \E k \in 1..Len(txq) : InitDone(k)
  \/ \E path \in DiskPaths, data \in Bytes : WriteFile(path, data)
  \/ \E path \in DiskPaths : UnlinkFile(path)
  \/ TimerFlush
  \/ CallShutdown
  \/ \E k \in 1..Len(txq) : FlushStep(k)
  \/ \E k \in 1..Len(txq) : FlushCommit(k)
  \/ \E k \in 1..Len(txq) : FlushFail(k)

SpecShut == InitDisk /\ [][NextShut]_vars

\* The controller boots the worker, then writes and deletes; the Backing
\* Store does not fail.  The interval keeps firing, and the requests and
\* the transactions of IndexedDB complete.
NextLive ==
  \/ messageId = 0 /\ SendCommand("BOOT", <<>>, <<>>)
  \/ \E path \in DiskPaths, data \in Bytes :
        messageId > 0 /\ SendCommand("WRITE_FILE", path, data)
  \/ \E path \in DiskPaths :
        messageId > 0 /\ SendCommand("DELETE_FILE", path, <<>>)
  \/ Dispatch
  \/ InitOpened
  \/ \E k \in 1..Len(txq) : InitGetAll(k)
  \/ \E k \in 1..Len(txq) : InitDone(k)
  \/ TimerFlush
  \/ \E k \in 1..Len(txq) : FlushStep(k)
  \/ \E k \in 1..Len(txq) : FlushCommit(k)

SpecLive ==
  /\ InitDisk
  /\ [][NextLive]_vars
  /\ WF_vars(TimerFlush)
  /\ WF_vars(\E k \in 1..Len(txq) : FlushStep(k))
  /\ WF_vars(\E k \in 1..Len(txq) : FlushCommit(k))

\* The file-tree store driven by the file explorer: nodes are created,
\* renamed, deleted, opened and closed in any order.
NextStore ==
  \/ \E parentPath \in StoreParents, name \in StoreNames,
        language \in {""} : createFile(parentPath, name, language)
  \/ \E parentPath \in StoreParents, name \in StoreNames :
        createFolder(parentPath, name)
  \/ \E path \in StorePaths : deleteFile(path)
  \/ \E path \in RenamePaths, newName \in StoreNames : renameFile(path, newName)
  \/ \E path \in OpenPaths : openFile(path)
  \/ \E path \in OpenPaths : closeFile(path)
  \/ \E path \in OpenPaths : setCurrentFile(path)

SpecStore == InitDisk /\ [][NextStore]_vars

\* The page driving the worker: the boot effect, then the Run button
\* pressed when no handler of the page is waiting.  The terminal output
\* effect runs after each render, before the next change of state.
NextPage ==
  \/ ~EffectDue /\ PageMount
  \/ ~EffectDue /\ AfterBoot
  \/ ~EffectDue /\ AfterPreload
  \/ ~EffectDue /\ AfterReadMain
  \/ ~EffectDue /\ handleRunPython
  \/ ~EffectDue /\ AfterSave
  \/ ~EffectDue /\ AfterLoad
  \/ ~EffectDue /\ AfterRun
  \/ ~EffectDue /\ Deliver
  \/ TerminalEffect
  \/ Dispatch
  \/ InitOpenFailed
  \/ InitOpened
  \/ \E k \in 1..Len(txq) : InitGetAll(k)
  \/ \E k \in 1..Len(txq) : InitDone(k)
  \/ \E t \in awaiting : PythonLoaded(t)
  \/ \E t \in awaiting : PythonLoadFailed(t)
  \/ \E t \in awaiting, text \in StdoutTexts : Stdout(t, text)
  \/ \E t \in awaiting, ok \in BOOLEAN : ExecSettled(t, ok)

SpecPage == InitDisk /\ [][NextPage]_vars

\* BOOT commands posted to the worker without waiting, in a context that
\* may follow an earlier one (booted by waitForBoot) on the same Backing
\* Store, against writes and deletes of one path, the flush timer and
\* shutdown(); the Backing Store does not fail.
NextBoot ==
  \/ messageId = 0 /\ CallWaitForBoot
  \/ messageId = 0 /\ Restart
  \/ /\ messageId = 0 => ~isReady /\ InitsInProgress = 0
     /\ SendCommand("BOOT", <<>>, <<>>)
  \/ Dispatch
  \/ InitOpened
  \/ \E k \in 1..Len(txq) : InitGetAll(k)
  \/ \E k \in 1..Len(txq) : InitDone(k)
  \/ \E data \in Bytes : WriteFile(P_a, data)
  \/ UnlinkFile(P_a)
  \/ TimerFlush
  \/ CallShutdown
  \/ \E k \in 1..Len(txq) : FlushStep(k)
  \/ \E k \in 1..Len(txq) : FlushCommit(k)

SpecBoot == InitDisk /\ [][NextBoot]_vars

-----------------------------------------------------------------------------
(* Claims on the disk *)

StoreEqualsMemory == idb = memory

\* C1: after boot, writeFileSync(p, b) immediately followed by readFileSync(p)
\* returns bytes equal to b (the empty sequence included), whatever writes,
\* deletes and flushes came before.
C1_RoundTrip ==
  (last.op = "readFileSync" /\ last.afterWrite # None)
    => last.result = Return(last.afterWrite[1])

C1_Witness ==
  /\ last.op = "readFileSync" /\ last.afterWrite = Some(<<>>)
  /\ last.result = Return(<<>>)
  /\ idb # EmptyMap

\* C2: once a forceFlush() has resolved successfully, with no write or
\* delete after it was called, the records of the Backing Store equal the
\* entries of the Content Store, by path and by bytes.
C2_FlushConvergence == force = "resolved" => StoreEqualsMemory

\* C3: files written, then flushed successfully, are what a fresh
\* VirtualDisk booted on the same Backing Store holds: the same paths, and
\* readFileSync of each returns the bytes written.
C3_BootRestores ==
  (isReady /\ restored # None)
    => /\ DOMAIN memory = DOMAIN restored[1]
       /\ \A p \in DOMAIN restored[1] : readFileSync(p) = Return(restored[1][p])

C3_Witness ==
  /\ isReady /\ restored # None
  /\ Cardinality(DOMAIN restored[1]) = 2
  /\ \E p \in DOMAIN memory : memory[p] # <<>>

\* C4: every synchronous disk operation invoked before boot() has resolved
\* fails with NotInitialized and leaves Content Store and Dirty Set
\* unchanged.
SyncOps == {"readFileSync", "writeFileSync", "existsSync", "unlinkSync",
            "readdirSync", "statSync", "listFiles"}

C4_PreBootGuard ==
  (last.op \in SyncOps /\ ~last.ready)
    => (last.result.status = "NotInitialized" /\ ~last.mutated)

-----------------------------------------------------------------------------
(* Claims on the kernel worker and the controller *)

Answers(id) == {i \in 1..Len(sent) : sent[i].cmd = id}

\* C5: when opening the Backing Store fails during boot, boot() still
\* resolves (the BOOT command gets a RESPONSE, not an ERROR) and ready()
\* becomes true, so that the synchronous calls that follow work in memory.
C5_DegradedBoot ==
  (last.op = "init" /\ last.result = Throw("OpenFailed"))
    => /\ isReady
       /\ last.by # None =>
            /\ Answers(last.by[1]) # {}
            /\ \A i \in Answers(last.by[1]) : sent[i].type = "RESPONSE"

\* Nothing is in flight between the controller and the worker, and no
\* handler is suspended.
Quiescent ==
  /\ inbox = <<>>
  /\ outbox = <<>>
  /\ opening = <<>>
  /\ \A k \in 1..Len(txq) : txq[k].type # "init"

\* Command i is a WRITE_FILE sent when the controller was ready and nothing
\* was pending, and command i + 1 is a READ_FILE of the same path sent
\* before the answer to the write was delivered.
BackToBack(i) ==
  /\ i + 1 <= Len(cmds)
  /\ cmds[i].type = "WRITE_FILE" /\ cmds[i].ready /\ ~cmds[i].overlap
  /\ cmds[i + 1].type = "READ_FILE" /\ cmds[i + 1].path = cmds[i].path
  /\ cmds[i + 1].overlap

\* C6: after boot, WriteFile(/x, A) then ReadFile(/x) sent back-to-back:
\* the readFile request completes, and with the bytes A.
C6_BackToBack ==
  Quiescent =>
    \A i \in 1..Len(cmds) :
      BackToBack(i) =>
        promises[i + 1] = [state |-> "resolved", value |-> Data(cmds[i].data)]

\* C7: the worker does not start handling a command until the answer to the
\* previous one has been sent, and so the answers are sent in the order in
\* which the commands arrived.
C7_Serial ==
  /\ Cardinality({id \in started : Answers(id) = {}}) <= 1
  /\ \A i, j \in 1..Len(sent) : i < j => sent[i].cmd < sent[j].cmd

\* C8: deleting a path that is not in the Content Store fails with
\* NotFound (unlinkSync throws, DELETE_FILE answers ERROR) and leaves the
\* Content Store and the Dirty Set as they were.
C8_DeleteMissing ==
  (last.op = "unlinkSync" /\ last.ready /\ ~last.had)
    => /\ last.result = Throw("NotFound")
       /\ ~last.mutated
       /\ last.by # None =>
            /\ Answers(last.by[1]) # {}
            /\ \A i \in Answers(last.by[1]) : sent[i].type = "ERROR"

\* DELETE_FILE of /a while /b is stored and dirty.
C8_Witness ==
  /\ last.op = "unlinkSync" /\ last.by # None /\ last.path = P_a
  /\ last.result = Throw("NotFound")
  /\ DOMAIN memory = {P_b} /\ dirty = <<P_b>>
  /\ \E i \in Answers(last.by[1]) : sent[i].type = "ERROR"

\* A BOOT command is dispatched on a disk that is ready.
BootOnReady ==
  /\ isReady
  /\ inbox # <<>> /\ Head(inbox).type = "BOOT"
  /\ inbox' = Tail(inbox)

\* C11: boot on a disk that is already ready returns at once (the BOOT
\* command is answered in the same turn): no record is reloaded from the
\* Backing Store, no other flush timer is started, and the Content Store
\* and the Dirty Set are left as they were.
C11_BootIdempotent ==
  [][BootOnReady =>
       /\ UNCHANGED <<memory, dirty, db, flushInterval, isReady, timers, idb,
                      opening, txq>>
       /\ sent' = Append(sent, Message("RESPONSE", Text("Kernel Ready"),
                                       Head(inbox).id))]_vars

\* BOOT answered on a ready disk that holds a file not yet flushed.
C11_Witness ==
  /\ last.op = "waitForBoot" /\ last.by # None /\ last.ready
  /\ memory # EmptyMap /\ dirty # <<>>
  /\ Cardinality(timers) = 1
  /\ sent[Len(sent)] = Message("RESPONSE", Text("Kernel Ready"), last.by[1])

\* The handler of command id is suspended in an await.
InProgress(id) ==
  \/ \E t \in awaiting : t.id = id
  \/ \E i \in 1..Len(opening) : opening[i] = Some(id)
  \/ \E k \in 1..Len(txq) : txq[k].type = "init" /\ txq[k].owner = Some(id)

\* The command has a type the worker does not know, or lacks its payload.
Malformed(c) ==
  \/ c.type \notin {"BOOT", "BOOT_PYTHON", "EXEC", "RUN_C", "RUN_CPP",
                    "READ_FILE", "WRITE_FILE", "LIST_FILES", "DELETE_FILE"}
  \/ c.type \in NeedsPayload /\ ~c.payload

\* C12: every command the worker receives, of unknown type or without
\* payload included, gets exactly one terminal message (none yet while its
\* handler is suspended); what a handler throws is answered as an ERROR;
\* and valid commands that come after an ERROR are handled as usual.
C12_OneTerminal ==
  /\ \A id \in started :
       Cardinality(Answers(id)) = IF InProgress(id) THEN 0 ELSE 1
  /\ \A i \in 1..Len(sent) :
       /\ sent[i].cmd \in started
       /\ Malformed(cmds[sent[i].cmd + 1]) => sent[i].type = "ERROR"
  /\ (last.by # None /\ last.result.status # "ok")
       => \A i \in Answers(last.by[1]) : sent[i].type = "ERROR"
  /\ (last.by # None /\ last.op = "writeFileSync" /\ last.ready)
       => /\ \A i \in Answers(last.by[1]) : sent[i].type = "RESPONSE"
          /\ MapGet(memory, last.path) = last.data

\* An unknown command was answered with an ERROR and the WRITE_FILE after
\* it is done.
C12_Witness ==
  /\ last.by # None /\ last.op = "writeFileSync" /\ last.result.status = "ok"
  /\ \E i \in 1..Len(sent) :
       /\ sent[i].type = "ERROR" /\ cmds[sent[i].cmd + 1].type = "NOP"
       /\ sent[i].cmd < last.by[1]
  /\ \E i \in Answers(last.by[1]) : sent[i].type = "RESPONSE"

\* A BOOT command has been answered with RESPONSE among the first n
\* messages sent.
BootAnswered(n) ==
  \E j \in 1..n : sent[j].type = "RESPONSE" /\ cmds[sent[j].cmd + 1].type = "BOOT"

\* C13: as long as no BOOT command has been answered, every command other
\* than BOOT is answered with ERROR and changes no state: nothing is
\* stored or marked dirty and the Python engine is neither loaded nor
\* being loaded.
C13_OnlyBootBeforeReady ==
  /\ \A i \in 1..Len(sent) :
       (cmds[sent[i].cmd + 1].type # "BOOT" /\ ~BootAnswered(i - 1))
         => sent[i].type = "ERROR"
  /\ ~BootAnswered(Len(sent))
       => /\ memory = EmptyMap /\ dirty = <<>>
          /\ ~pyodideReady /\ awaiting = {}

\* A command of one of `types`, with its payload, is dispatched.
Dispatched(types) ==
  /\ inbox # <<>> /\ Head(inbox).type \in types /\ Head(inbox).payload
  /\ inbox' = Tail(inbox)

\* The command dispatched is answered in this turn.
Answered(type, payload) ==
  sent' = Append(sent, Message(type, payload, Head(inbox).id))

\* C18: an EXEC command received while the Python engine is not loaded is
\* answered with ERROR and changes neither the Content Store nor the Dirty
\* Set; on a ready disk READ_FILE, WRITE_FILE and DELETE_FILE do their work
\* while the engine is not loaded, also while a load is in progress and
\* after a load has failed.
C18_EngineUnavailable ==
  [][/\ (~pyodideReady /\ Dispatched({"EXEC"}))
        => /\ Answered("ERROR", ErrorPayload("PythonNotLoaded"))
           /\ UNCHANGED <<memory, dirty, engineVars>>
     /\ (~pyodideReady /\ isReady /\ Dispatched({"WRITE_FILE"}))
        => /\ Answered("RESPONSE", Text("Written"))
           /\ memory' = MapSet(memory, Head(inbox).path, Head(inbox).data)
           /\ Head(inbox).path \in Range(dirty')
     /\ (~pyodideReady /\ isReady /\ Dispatched({"READ_FILE"}))
        => /\ Answered("RESPONSE",
                       IF Head(inbox).path \in DOMAIN memory
                       THEN Data(memory[Head(inbox).path]) ELSE Null)
           /\ UNCHANGED <<memory, dirty>>
     /\ (~pyodideReady /\ isReady /\ Dispatched({"DELETE_FILE"})
           /\ Head(inbox).path \in DOMAIN memory)
        => /\ Answered("RESPONSE", Text("Deleted"))
           /\ DOMAIN memory' = DOMAIN memory \ {Head(inbox).path}
           /\ Head(inbox).path \in Range(dirty')]_vars

\* The load of the engine has failed and the EXEC after it was answered
\* with an ERROR.
C18_Witness ==
  /\ ~pyodideReady /\ awaiting = {}
  /\ \E i, j \in 1..Len(sent) :
       /\ i < j
       /\ sent[i] = Message("ERROR", ErrorPayload("LoadFailed"), sent[i].cmd)
       /\ sent[j] = Message("ERROR", ErrorPayload("PythonNotLoaded"), sent[j].cmd)
       /\ cmds[sent[j].cmd + 1].type = "EXEC"

\* C19: a BOOT_PYTHON command received when the Python engine is already
\* loaded is acknowledged with a RESPONSE in the same turn; no load is
\* started and the engine, the Content Store, the Dirty Set and the rest
\* of the disk are left as they were.
C19_BootPythonIdempotent ==
  [][(pyodideReady /\ inbox # <<>> /\ Head(inbox).type = "BOOT_PYTHON"
        /\ inbox' = Tail(inbox))
       => /\ Answered("RESPONSE", Text("Python already loaded"))
          /\ UNCHANGED <<engineVars, diskVars>>]_vars

\* A second BOOT_PYTHON has been acknowledged by the loaded engine.
C19_Witness ==
  /\ pyodideReady /\ pyodide = "loaded" /\ awaiting = {}
  /\ Len(sent) > 1
  /\ sent[Len(sent)].type = "RESPONSE"
  /\ sent[Len(sent)].payload = Text("Python already loaded")
  /\ cmds[sent[Len(sent)].cmd + 1].type = "BOOT_PYTHON"

\* The models of the engines that are loaded.
LoadedVariants == {e.model : e \in loadedEngines}

\* A BOOT_AI for the model variant that is already loaded is answered in
\* the same turn without a reload and leaves engine and loadedModelName
\* unchanged.
AlreadyLoadedShortCircuit ==
  [][(/\ aiInbox # <<>> /\ Head(aiInbox).type = "BOOT_AI"
      /\ engine # None
      /\ loadedModelName = Some(selectedModel(Head(aiInbox).mode))
      /\ aiInbox' = Tail(aiInbox))
       => /\ UNCHANGED <<engine, loadedModelName, isBooting, aiAwaiting,
                         loadedEngines>>
          /\ aiSent' = Append(aiSent, AIMessage("RESPONSE", "AI already loaded",
                                               Head(aiInbox).mode))]_vars

\* C20: in the AI worker a BOOT_AI for a different variant unloads the
\* previous engine before the new load begins, so that at no time are two
\* engine variants loaded.
C20_OneVariantLoaded == Cardinality(LoadedVariants) <= 1

-----------------------------------------------------------------------------
(* Claims on the file-tree store *)

\* The paths of all the nodes of a tree.
RECURSIVE PathsOf(_)
PathsOf(nodes) ==
  IF nodes = <<>> THEN {}
  ELSE {Head(nodes).path}
       \cup (IF Head(nodes).children # None
             THEN PathsOf(Head(nodes).children[1]) ELSE {})
       \cup PathsOf(Tail(nodes))

\* C30: createFile(parent, name) and createFolder(parent, name) leave
\* files, openFiles and currentFile as they were when a node with the
\* resulting path already exists.
C30_DuplicateIsNoOp ==
  (/\ storeLast.op \in {"createFile", "createFolder"}
   /\ storeLast.path \in PathsOf(storeLast.before[1].files))
    => StoreState = storeLast.before[1]

\* createFolder('/a', 'b') has been called while /a/b existed inside the
\* folder /a, with a file open.
C30_Witness ==
  /\ storeLast.op = "createFolder"
  /\ storeLast.path = <<"/", "a", "/", "b">>
  /\ \E i \in 1..Len(files) :
       /\ files[i].type = "folder" /\ files[i].path = <<"/", "a">>
       /\ <<"/", "a", "/", "b">> \in PathsOf(files[i].children[1])
  /\ <<"/", "a", "/", "b">> \in PathsOf(storeLast.before[1].files)
  /\ currentFile # None /\ openFiles # <<>>

-----------------------------------------------------------------------------
(* Claims on terminal output *)

Delivered(id) ==
  /\ Answers(id) # {}
  /\ \A k \in 1..Len(outbox) : outbox[k].cmd # id

TerminalMessage(id) == sent[CHOOSE i \in Answers(id) : TRUE]

\* C22: when commands are sent one at a time, the promise sendCommand
\* returned is pending until the terminal message of its command is
\* delivered and is settled by it from then on, once and for all: resolved
\* with the payload of a RESPONSE, rejected with the message text of an
\* ERROR.
C22_PromiseSettles ==
  /\ [](\A id \in 0..(messageId - 1) :
         promises[id + 1] =
           IF ~Delivered(id) THEN Pending
           ELSE IF TerminalMessage(id).type = "RESPONSE"
           THEN [state |-> "resolved", value |-> TerminalMessage(id).payload]
           ELSE [state |-> "rejected",
                 value |-> ErrorPayload(TerminalMessage(id).payload.text)])
  /\ [][\A i \in 1..Len(promises) :
          promises[i] # Pending => promises'[i] = promises[i]]_vars

\* An EXEC has been rejected with the engine's error after its output was
\* logged, and the command after it has resolved.
C22_Witness ==
  /\ Len(promises) = 3
  /\ promises[2] = [state |-> "rejected", value |-> ErrorPayload("PythonError")]
  /\ promises[3].state = "resolved"
  /\ terminalOutput # <<>>

\* C23: a TERMINAL_OUTPUT message that reaches the controller is added at
\* the end of the output log, and no pending command is resolved, rejected
\* or dropped by it, whatever commands are in flight.
C23_OutputLog ==
  [][(outbox # <<>> /\ Head(outbox).type = "TERMINAL_OUTPUT"
        /\ outbox' = Tail(outbox))
       => /\ terminalOutput' = Append(terminalOutput, Head(outbox).payload)
          /\ UNCHANGED <<pendingCallbacks, promises, kernelReady>>]_vars

\* Two outputs are in the log and two commands are still pending.
C23_Witness ==
  /\ Len(terminalOutput) = 2
  /\ Len(pendingCallbacks) = 2
  /\ \A i \in 1..Len(pendingCallbacks) :
       promises[pendingCallbacks[i] + 1] = Pending

\* C26: every text the Python engine writes to standard output goes
\* through the OutputBatcher: a TERMINAL_OUTPUT is posted by
\* OutputBatcher.flush only, so that texts written within one batching
\* interval make one message.
C26_StdoutBatched ==
  \A i \in 1..Len(emitted) : emitted[i].via = "flush"

RECURSIVE concat(_)
concat(texts) == IF texts = <<>> THEN <<>> ELSE Head(texts) \o concat(Tail(texts))

EmittedText == concat([i \in 1..Len(emitted) |-> emitted[i].payload])

\* C25: for any sequence of OutputBatcher.write calls, manual flushes and
\* timer firings, the payloads of the TERMINAL_OUTPUT messages emitted,
\* put end to end and followed by what is still buffered, are the texts
\* written in write order (nothing lost, repeated or reordered), and once
\* the pending timers have fired everything written has been emitted.
C25_Batcher ==
  /\ [](EmittedText \o join(buffer) = concat(written))
  /\ <>[](buffer = <<>> /\ EmittedText = concat(written))

\* Three texts written, the first flushed by hand and the other two sent
\* as one message by a timer.
C25_Witness ==
  /\ written = << <<"a">>, <<"b">>, <<"a">> >>
  /\ Len(emitted) = 2
  /\ emitted[1].payload = <<"a">> /\ emitted[2].payload = <<"b", "a">>
  /\ buffer = <<>> /\ timeouts # {}

\* C27: after boot, the response to LIST_FILES contains every path the
\* Content Store holds.
C27_ListsEveryFile ==
  (last.op = "readdirSync" /\ last.by # None /\ last.ready)
    => \A i \in Answers(last.by[1]) :
         /\ sent[i].type = "RESPONSE"
         /\ DOMAIN memory \subseteq Range(sent[i].payload.data)

\* A READ_FILE command is dispatched on a ready disk.
ReadOnReady ==
  /\ isReady
  /\ inbox # <<>> /\ Head(inbox).type = "READ_FILE" /\ Head(inbox).payload
  /\ inbox' = Tail(inbox)

\* C28: after boot, a READ_FILE for a path that is not stored is answered
\* with a RESPONSE whose payload is null, not with an ERROR, and changes no
\* state of the disk or the engine; a READ_FILE for a stored path is
\* answered with its bytes.
C28_ReadMissingIsNull ==
  [][ReadOnReady =>
       /\ sent' = Append(sent,
            Message("RESPONSE",
                    IF Head(inbox).path \in DOMAIN memory
                    THEN Data(memory[Head(inbox).path]) ELSE Null,
                    Head(inbox).id))
       /\ UNCHANGED <<diskVars, engineVars>>]_vars

\* READ_FILE has been answered null on a booted disk that does not hold
\* the path.
C28_Witness ==
  /\ last.op = "existsSync" /\ last.by # None /\ last.ready
  /\ last.path \notin DOMAIN memory
  /\ sent[Len(sent)] = Message("RESPONSE", Null, last.by[1])

-----------------------------------------------------------------------------
(* Claims on persistence *)

\* C14: with a fair flush timer and a Backing Store that does not fail,
\* every write or delete made after boot reaches the Backing Store, also
\* when it is made while a flush is in progress: once writes and deletes
\* have stopped, the Backing Store comes to equal the Content Store and
\* stays equal.
C14_EventuallyPersisted == <>[]StoreEqualsMemory

\* A path is changed while the flush that had already made its request
\* for it is in progress: it is dirty again.
C14_Witness ==
  \E k \in 1..Len(txq), p \in DiskPaths :
    /\ txq[k].type = "flush"
    /\ p \in DOMAIN txq[k].writes /\ p \notin txq[k].covered
    /\ p \in Range(dirty)
    /\ txq[k].writes[p] # MapGet(memory, p)

\* C24: a flush that succeeds leaves, for each path of its snapshot, a
\* Backing Store record with the bytes the Content Store held for the path
\* when the loop came to it, or no record if the path was absent then; the
\* records of the other paths are as they were; and a flush started with
\* an empty Dirty Set changes nothing in the Backing Store.
C24_FlushResult ==
  [][/\ \A k \in 1..Len(txq) :
          FlushCommit(k) =>
            /\ \A p \in Range(txq[k].paths) : MapGet(idb', p) = txq[k].seen[p]
            /\ \A p \in (DOMAIN idb \cup DOMAIN idb') \ Range(txq[k].paths) :
                 MapGet(idb', p) = MapGet(idb, p)
     /\ (dirty = <<>> /\ CallForceFlush) => UNCHANGED <<idb, txq, memory>>]_vars

\* A flush has committed the bytes /a held when the loop came to it; /a
\* holds other bytes now, not yet flushed.
C24_Witness ==
  /\ txq = <<>> /\ failed = None
  /\ idb = MapSet(EmptyMap, P_a, <<0>>)
  /\ memory = MapSet(EmptyMap, P_a, <<>>)
  /\ dirty = <<P_a>>
  /\ unsynced = {P_a}
  /\ restored = None

\* C15: when shutdown() has resolved (and nothing was written or deleted
\* since it was called), the flush timer is stopped, ready() is false, so
\* that readFileSync, writeFileSync and unlinkSync fail with
\* NotInitialized, and every write and delete made before the call is in
\* the Backing Store.
C15_Shutdown ==
  shut = "resolved"
    => /\ timers = {} /\ flushInterval = 0
       /\ ~isReady
       /\ \A p \in DiskPaths :
            /\ readFileSync(p) = Throw("NotInitialized")
            /\ unlinkSync(p).status = "NotInitialized"
            /\ \A b \in Bytes : writeFileSync(p, b).status = "NotInitialized"
       /\ StoreEqualsMemory

\* A flush has failed and nothing was written or deleted since.
FlushFailed == failed # None

\* C16: a flush that fails changes no Content Store entry, so what
\* readFileSync, existsSync, readdirSync and statSync return is what they
\* returned before it.
C16_FailedFlushKeepsMemory ==
  FlushFailed => (memory = failed[1].memory /\ isReady = failed[1].ready)

\* A flush of two paths, one stored and one deleted, has failed.
C16_Witness ==
  /\ FlushFailed /\ failed[1].paths = DiskPaths
  /\ Cardinality(DOMAIN memory) = 1
  /\ idb = EmptyMap

\* The path is in the Dirty Set or in the snapshot of a flush in progress.
Eligible(p) ==
  \/ p \in Range(dirty)
  \/ \E k \in 1..Len(txq) : txq[k].type = "flush" /\ p \in Range(txq[k].paths)

\* C17: after a flush has failed, every path of its snapshot whose change
\* is not in the Backing Store stays eligible for a later flush of the
\* timer, without being written or deleted again.
C17_FailedFlushRetried ==
  FlushFailed => \A p \in failed[1].paths \cap unsynced : Eligible(p)

-----------------------------------------------------------------------------
(* Claims on directory inference *)

\* The piece of s before its first '/', all of s when it has none.
FirstSegment(s) ==
  LET n == CHOOSE k \in 0..Len(s) :
             /\ \A i \in 1..k : s[i] # "/"
             /\ k < Len(s) => s[k + 1] = "/"
  IN SubSeq(s, 1, n)

ChildrenOf(d) ==
  LET prefix == IF d = <<>> \/ d = <<"/">> THEN <<"/">> ELSE d \o <<"/">>
  IN {FirstSegment(sliceFrom(p, Len(prefix))) :
        p \in {q \in DOMAIN memory : startsWith(q, prefix)}}

NoDuplicates(s) == \A i, j \in 1..Len(s) : s[i] = s[j] => i = j

\* C9: readdirSync(d) returns exactly the set, without duplicates, of the
\* first path segment after d + "/" of every stored path that begins with
\* d + "/" (for the root: the first segment of every stored path).
C9_Readdir ==
  last.op = "readdirSync"
    => /\ last.result.status = "ok"
       /\ NoDuplicates(last.result.value[1])
       /\ Range(last.result.value[1]) = ChildrenOf(last.path)

\* /a/b/a and /a/b/b are stored: readdirSync('/a') is [b], once.
C9_Witness ==
  /\ last.op = "readdirSync" /\ last.path = <<"/", "a">>
  /\ DOMAIN memory = {<<"/", "a", "/", "b", "/", "a">>,
                      <<"/", "a", "/", "b", "/", "b">>}
  /\ last.result = Return(<< <<"b">> >>)

\* C10: statSync(p) is a directory of size 0 for the root; a file with the
\* stored byte length when p is stored; a directory of size 0 when p is not
\* stored but a stored path begins with p + "/"; NotFound otherwise.
C10_Stat ==
  last.op = "statSync"
    => LET p == last.path IN
       IF p = <<>> \/ p = <<"/">> THEN last.result = Return(Stat(TRUE, 0))
       ELSE IF p \in DOMAIN memory
       THEN last.result = Return(Stat(FALSE, Len(memory[p])))
       ELSE IF \E q \in DOMAIN memory : startsWith(q, p \o <<"/">>)
       THEN last.result = Return(Stat(TRUE, 0))
       ELSE last.result = Throw("NotFound")

\* /b is not stored next to /b/a, and /a/b is a file of one byte although
\* /a/b/a is stored under it.
C10_Witness ==
  /\ last.op = "statSync" /\ last.path = <<"/", "b">>
  /\ last.result = Return(Stat(TRUE, 0))
  /\ DOMAIN memory = {<<"/", "b", "/", "a">>}

\* The non-root paths asked about.
DirNames == DirQueries \ {<<>>, <<"/">>}

LastSlash(d) == CHOOSE k \in 1..Len(d) : d[k] = "/" /\ \A i \in (k + 1)..Len(d) : d[i] # "/"
parentOf(d) == IF LastSlash(d) = 1 THEN <<"/">> ELSE SubSeq(d, 1, LastSlash(d) - 1)
nameOf(d) == SubSeq(d, LastSlash(d) + 1, Len(d))
Under(d) == {q \in DOMAIN memory : startsWith(q, d \o <<"/">>)}
IsDirectory(d) == statSync(d).status = "ok" /\ statSync(d).value[1].isDirectory

\* C29: no empty directory exists. For every non-root path d, statSync(d)
\* reports a directory only while some stored path begins with d + "/";
\* and right after unlinkSync has deleted the last stored path under a
\* directory d (d itself is not a stored file), statSync(d) fails with
\* NotFound and readdirSync of d's parent does not contain d's name.
C29_NoEmptyDirectory ==
  /\ \A d \in DirNames : IsDirectory(d) => Under(d) # {}
  /\ (last.op = "unlinkSync" /\ last.result.status = "ok")
       => \A d \in DirNames :
            (/\ startsWith(last.path, d \o <<"/">>)
             /\ d \notin DOMAIN memory
             /\ Under(d) \ {last.path} = {})
              => /\ statSync(d) = Throw("NotFound")
                 /\ readdirSync(parentOf(d)).status = "ok"
                 /\ nameOf(d) \notin Range(readdirSync(parentOf(d)).value[1])

\* /b/a, the only path under /b, has just been deleted while /a stays
\* stored; /b itself was never written.
C29_Witness ==
  /\ last.op = "unlinkSync" /\ last.path = <<"/", "b", "/", "a">>
  /\ last.result.status = "ok"
  /\ DOMAIN memory = {P_a}
  /\ Range(dirty) = {P_a, <<"/", "b", "/", "a">>}

-----------------------------------------------------------------------------
(* Claims on concurrent boots *)

\* C31: after boot and without Backing Store failures, each path whose
\* Content Store value differs from its Backing Store record is in the
\* Dirty Set or in the snapshot of a flush that is still in progress.
C31_DifferenceIsTracked ==
  isReady => \A p \in DOMAIN memory \cup DOMAIN idb :
               MapGet(memory, p) # MapGet(idb, p) => Eligible(p)

\* The steps that call writeFileSync or unlinkSync: a direct call, or the
\* handler of a command.
WriteOrUnlink ==
  \/ \E path \in DiskPaths, data \in Bytes :
        WriteFile(path, data) \/ CallWriteFileSync(path, data)
  \/ \E path \in DiskPaths : UnlinkFile(path) \/ CallUnlinkSync(path)
  \/ Dispatch

\* C32: once the disk is ready, the Content Store changes only through
\* writeFileSync or unlinkSync, until the context ends.
C32_ReadyMemoryOwnedByWrites ==
  [][(isReady /\ memory' # memory) => (WriteOrUnlink \/ Restart)]_vars

\* C33: at most one recurring flush timer is active after every step, and
\* a call of shutdown() leaves none active.
C33_OneFlushTimer ==
  [][/\ Cardinality(timers') <= 1
     /\ CallShutdown => timers' = {}]_vars

\* C34: when shutdown() resolves after a write or a delete was accepted
\* while its flush was in progress (the call under observation is then
\* no longer pending), the Dirty Set is empty and the Backing Store equals
\* the Content Store.
C34_ShutdownPersistsLateWrites ==
  [][\A k \in 1..Len(txq) :
       (FlushCommit(k) /\ txq[k].caller = "shutdown" /\ shut = "idle")
         => (dirty' = <<>> /\ idb' = memory')]_vars

\* The loads of the Python engine that are in progress.
PythonLoads == {t \in awaiting : t.at = "loadPyodide"}

\* C35: the Python engine is loaded at most once per worker: at most one
\* load is in progress, and none once the engine is loaded.
C35_OnePythonLoad ==
  /\ Cardinality(PythonLoads) <= 1
  /\ pyodideReady => PythonLoads = {}

-----------------------------------------------------------------------------
(* Claims on overlapping commands *)

\* C36: with several commands outstanding, every sendCommand promise
\* settles, and with the terminal message of its own command: once the
\* answer to a command has reached the controller, its promise is resolved
\* with that RESPONSE's payload or rejected with that ERROR's message.
C36_SettlesWithOwnAnswer ==
  \A id \in 0..(messageId - 1) :
    Delivered(id) =>
      promises[id + 1] =
        IF TerminalMessage(id).type = "RESPONSE"
        THEN [state |-> "resolved", value |-> TerminalMessage(id).payload]
        ELSE [state |-> "rejected",
              value |-> ErrorPayload(TerminalMessage(id).payload.text)]

\* The engine loads of the AI worker that are in progress: BOOT_AI handlers
\* past the isBooting guard, in the GPU check or in bootEngine.
AILoads == {t \in aiAwaiting : t.at \in {"checkWebGPUSupport", "bootEngine"}}

\* C37: in the AI worker at most one engine load is in progress at any
\* time, whatever BOOT_AI and GENERATE commands arrive during a load.
C37_OneAILoad == Cardinality(AILoads) <= 1

-----------------------------------------------------------------------------
(* Claims on the page *)

\* C38: each TERMINAL_OUTPUT chunk of the output log is written to the
\* terminal exactly once: no chunk is written twice, so that a new run
\* never writes output of an earlier run again, and once the effect has
\* run every chunk of the log has been written.
C38_WrittenExactlyOnce ==
  /\ \A i, j \in 1..Len(termWrites) :
       (termWrites[i].run = termWrites[j].run
          /\ termWrites[i].pos = termWrites[j].pos) => i = j
  /\ ~EffectDue =>
       \A k \in 1..Len(terminalOutput) :
         \E i \in 1..Len(termWrites) :
           termWrites[i] = Chunk(PythonRuns, k, terminalOutput[k])

-----------------------------------------------------------------------------
(* Claims on the paths of the file-tree store *)

RECURSIVE CountNodes(_)
\* How many nodes a tree has.
CountNodes(nodes) ==
  IF nodes = <<>> THEN 0
  ELSE 1 + (IF Head(nodes).children # None
            THEN CountNodes(Head(nodes).children[1]) ELSE 0)
         + CountNodes(Tail(nodes))

\* C39: no two nodes of the tree have the same path: the tree has as many
\* different paths as it has nodes.
C39_PathsAreUnique == Cardinality(PathsOf(files)) = CountNodes(files)

\* findFileByPath(path) finds a node, and it is a file.
ResolvesToFile(path) ==
  LET file == findFileByPath(path) IN file # None /\ file[1].type = "file"

\* C40: every entry of openFiles, and currentFile when it is not null, has
\* a path that findFileByPath resolves to a file node of the tree.
C40_OpenFilesResolve ==
  /\ \A i \in 1..Len(openFiles) : ResolvesToFile(openFiles[i].path)
  /\ currentFile # None => ResolvesToFile(currentFile[1].path)

====
